---- MODULE Spec2Model ----
(***************************************************************************)
(* Webhook ingestion and ledger update of the SAMii Milestone Tracker      *)
(* worker (src/src/index.ts, lines 1-236).                                 *)
(*                                                                         *)
(* The KV namespace is the only shared state.  Every request runs          *)
(* handleStripeWebhook; each `await` on the KV namespace is one step of    *)
(* the request, so the steps of concurrent requests interleave freely.     *)
(* A KV operation either returns or throws; a request may also die         *)
(* between two of its KV operations (worker eviction).                     *)
(***************************************************************************)
EXTENDS Integers, Sequences, FiniteSets, TLC

----------------------------------------------------------------------------
(* Bounds of the model *)

NumProcs == 2           \* handler slots: requests in flight at the same time
MaxDeliveries == 2      \* deliveries per behaviour, concurrent requests
MaxSeqDeliveries == 2   \* deliveries per behaviour, one request at a time
MaxRedeliveries == 3    \* deliveries per behaviour, redelivered charges
MaxStoredCents == 250   \* highest stored total of the display rounding
MaxPairs == 3           \* key=value pairs of a Stripe-Signature header
MaxAdminRequests == 2   \* requests to /__diag and the admin routes
MaxAlertDeliveries == 3 \* webhook requests of the alerting worker

Procs == 1..NumProcs

----------------------------------------------------------------------------
(* JavaScript numbers carried by events.                                   *)
(* A number n with -2^31 <= n < 2^32 is the pair hi, lo with               *)
(* n = hi * 2^31 + lo, hi \in {0, 1} and, when hi = 1, 0 <= lo < 2^31.     *)

Int32Max == 2147483647

Num(n) == [hi |-> 0, lo |-> n]
Big(n) == [hi |-> 1, lo |-> n]

\* x | 0 : ToInt32 of the number
ToInt32(x) == IF x.hi = 0 THEN x.lo ELSE (x.lo - Int32Max) - 1

\* x || 0 on a number: 0 is the only falsy number an event carries here
OrZero(x) == IF x.hi = 0 /\ x.lo = 0 THEN Num(0) ELSE x

Max(a, b) == IF a >= b THEN a ELSE b

----------------------------------------------------------------------------
(* Decimal strings: the total is stored as String(next) and read back      *)
(* with parseInt(raw, 10) || 0.  A string is a sequence of characters;     *)
(* the characters String writes are the digits 0..9.                       *)

RECURSIVE DigitsOf(_)
DigitsOf(n) == IF n < 10 THEN <<n>> ELSE Append(DigitsOf(n \div 10), n % 10)

\* String(n) for an integer n >= 0 (below 1e21 no exponent is printed)
String(n) == DigitsOf(n)

IsDigit(c) == c \in 0..9

RECURSIVE ParseDigits(_, _, _)
ParseDigits(s, i, acc) ==
    IF i > Len(s) \/ ~IsDigit(s[i]) THEN acc
    ELSE ParseDigits(s, i + 1, acc * 10 + s[i])

\* parseInt(raw, 10) || 0 : the leading digits, NaN (no digit) becomes 0
ParseIntOrZero(raw) == ParseDigits(raw, 1, 0)

----------------------------------------------------------------------------
(* Event payloads (the JSON bodies Stripe posts).                          *)

ChargeSucceeded == "charge.succeeded"
PaymentIntentSucceeded == "payment_intent.succeeded"
CheckoutCompleted == "checkout.session.completed"

\* event?.id || "" : a missing id reads as the empty string
NoId == ""

\* body |-> parsed JSON; json = FALSE is a body JSON.parse rejects.
\* A currency code is the sequence of its characters; an absent currency
\* (ch.currency || "") is the empty sequence.  hasData = FALSE is an event
\* without a data member; amount is the amount member the handler of the
\* event type reads; name = "" is an absent payer name.
Bodies == <<
    [json |-> TRUE, id |-> "evt_1", type |-> ChargeSucceeded, hasData |-> TRUE,
     currency |-> <<"a", "u", "d">>, amount |-> Num(5000), name |-> "A. Payer", created |-> 10],
    [json |-> TRUE, id |-> "evt_2", type |-> ChargeSucceeded, hasData |-> TRUE,
     currency |-> <<"A", "U", "D">>, amount |-> Num(700), name |-> "", created |-> 5],
    [json |-> TRUE, id |-> "evt_3", type |-> ChargeSucceeded, hasData |-> TRUE,
     currency |-> <<"u", "s", "d">>, amount |-> Num(300), name |-> "U. Payer", created |-> 7],
    [json |-> TRUE, id |-> "evt_4", type |-> ChargeSucceeded, hasData |-> TRUE,
     currency |-> <<"a", "u", "d">>, amount |-> Big(0), name |-> "B. Payer", created |-> 8],
    [json |-> TRUE, id |-> "evt_5", type |-> PaymentIntentSucceeded, hasData |-> TRUE,
     currency |-> <<"a", "u", "d">>, amount |-> Num(400), name |-> "P. Payer", created |-> 9],
    [json |-> TRUE, id |-> "evt_6", type |-> "customer.created", hasData |-> TRUE,
     currency |-> <<>>, amount |-> Num(0), name |-> "", created |-> 3],
    [json |-> TRUE, id |-> "evt_7", type |-> ChargeSucceeded, hasData |-> FALSE,
     currency |-> <<>>, amount |-> Num(0), name |-> "", created |-> 6],
    [json |-> TRUE, id |-> "evt_8", type |-> CheckoutCompleted, hasData |-> TRUE,
     currency |-> <<"a", "u", "d">>, amount |-> Num(900), name |-> "C. Payer", created |-> 2],
    [json |-> TRUE, id |-> NoId, type |-> ChargeSucceeded, hasData |-> TRUE,
     currency |-> <<"a", "u", "d">>, amount |-> Num(100), name |-> "N. Payer", created |-> 4],
    [json |-> FALSE, id |-> NoId, type |-> "", hasData |-> FALSE,
     currency |-> <<>>, amount |-> Num(0), name |-> "", created |-> 0],
    [json |-> TRUE, id |-> "evt_9", type |-> ChargeSucceeded, hasData |-> TRUE,
     currency |-> <<>>, amount |-> Num(250), name |-> "M. Payer", created |-> 11]
>>

BodyIds == 1..Len(Bodies)
EventIds == {Bodies[b].id : b \in BodyIds} \ {NoId}

----------------------------------------------------------------------------
(* Requests: a raw body and a Stripe-Signature header "t=..,v1=..".        *)

Secret == "whsec"
Now == 100000             \* Math.floor(Date.now() / 1000)
Tolerance == 1800         \* toleranceSeconds passed by handleStripeWebhook

\* hmacSHA256(secret, `${t}.${rawBody}`): an injective function of its
\* arguments, written as the string of its three parts.
HmacSHA256(secret, t, body) == <<secret, t, body>>

\* The header the sender computes for body b at time t with key k.
Signed(k, t, b) == [t |-> t, v1 |-> HmacSHA256(k, t, b)]

\* t = 0 stands for an absent or non-numeric t (Number(..) is NaN or 0),
\* v1 = <<>> for an absent or empty v1.  The forged requests carry a digest
\* made with another key, for another body, for another timestamp, or cut
\* short.
Requests ==
    {[body |-> b, hdr |-> Signed(Secret, Now, b)] : b \in BodyIds}
    \cup {[body |-> 1, hdr |-> Signed(Secret, Now - (Tolerance + 1), 1)],
          [body |-> 1, hdr |-> Signed("whsec_other", Now, 1)],
          [body |-> 2, hdr |-> Signed(Secret, Now, 1)],
          [body |-> 1, hdr |-> [t |-> Now, v1 |-> HmacSHA256(Secret, Now - 1, 1)]],
          [body |-> 1, hdr |-> [t |-> Now, v1 |-> <<Secret, Now>>]],
          [body |-> 1, hdr |-> [t |-> 0, v1 |-> <<>>]]}

\* The text of a Stripe-Signature header after split(",") and split("="):
\* a sequence of pairs [k, v], v the text of a number for key t (written
\* <<n>>) and a digest for the other keys.
HeaderPairs ==
    {[k |-> "t", v |-> <<Now>>],
     [k |-> "t", v |-> <<Now - (Tolerance + 1)>>],
     [k |-> "v1", v |-> HmacSHA256(Secret, Now, 1)],
     [k |-> "v1", v |-> HmacSHA256("whsec_other", Now, 1)],
     [k |-> "v0", v |-> HmacSHA256("whsec_other", Now, 1)]}

RawHeaders == UNION {[1..n -> HeaderPairs] : n \in 0..MaxPairs}

\* Object.fromEntries(pairs)[key]: the value of the last pair with this
\* key, <<>> when no pair has it (undefined)
LastOf(raw, key) ==
    LET at == {i \in 1..Len(raw) : raw[i].k = key}
    IN  IF at = {} THEN <<>>
        ELSE raw[CHOOSE i \in at : \A j \in at : j <= i].v

\* Number(text): 0 stands for NaN, the value for an absent text
NumberOf(v) == IF v = <<>> THEN 0 ELSE v[1]

\* const t = Number(parts["t"]); const v1 = parts["v1"]
ParseHeader(raw) == [t |-> NumberOf(LastOf(raw, "t")), v1 |-> LastOf(raw, "v1")]

HeaderRequests ==
    {[body |-> 1, hdr |-> ParseHeader(raw), raw |-> raw] : raw \in RawHeaders}

Abs(x) == IF x < 0 THEN -x ELSE x

\* Mutant: only the first position of the digests is compared.
timingSafeEqualHexFirst(a, b) ==
    IF Len(a) # Len(b) THEN FALSE
    ELSE a[1] = b[1]

\* Mutant: the loop stops at the first position where the digests differ.
RECURSIVE CompareLoopEarlyExit(_, _, _, _)
CompareLoopEarlyExit(a, b, i, acc) ==
    IF i > Len(a) \/ acc.res # 0 THEN acc
    ELSE CompareLoopEarlyExit(a, b, i + 1,
             [res |-> IF a[i] = b[i] THEN acc.res ELSE 1,
              visited |-> acc.visited + 1])

\* for (let i = 0; i < a.length; i++) res |= a.charCodeAt(i) ^ b.charCodeAt(i)
\* The xor of two character codes is 0 iff the characters are equal; res
\* keeps whether a bit has been set.  visited counts the passes of the loop.
RECURSIVE CompareLoop(_, _, _, _)
CompareLoop(a, b, i, acc) ==
    IF i > Len(a) THEN acc
    ELSE CompareLoop(a, b, i + 1,
             [res |-> IF a[i] = b[i] THEN acc.res ELSE 1,
              visited |-> acc.visited + 1])

\* The number of positions timingSafeEqualHex(a, b) reads
Visited(a, b) ==
    IF Len(a) # Len(b) THEN 0
    ELSE CompareLoop(a, b, 1, [res |-> 0, visited |-> 0]).visited

timingSafeEqualHex(a, b) ==
    IF Len(a) # Len(b) THEN FALSE
    ELSE CompareLoop(a, b, 1, [res |-> 0, visited |-> 0]).res = 0

\* Digests a sender may put in v1 for the first body at the time of the
\* clock: each part right or wrong, and digests shorter or longer than
\* the HMAC.
Digests ==
    LET Keys == {Secret, "whsec_other"}
        Times == {Now, Now - 1}
        Payloads == {1, 2}
    IN  {<<k>> : k \in Keys}
          \cup {<<k, t>> : k \in Keys, t \in Times}
          \cup {<<k, t, b>> : k \in Keys, t \in Times, b \in Payloads}
          \cup {<<k, t, b, c>> : k \in Keys, t \in Times, b \in Payloads, c \in Payloads}

DigestRequests == {[body |-> 1, hdr |-> [t |-> Now, v1 |-> d]] : d \in Digests}

\* Mutant: the timestamp of the header is not compared with the clock.
verifyNoTolerance(rawBody, hdr, endpointSecret, toleranceSeconds) ==
    /\ hdr.t # 0 /\ hdr.v1 # <<>>
    /\ timingSafeEqualHex(HmacSHA256(endpointSecret, hdr.t, rawBody), hdr.v1)

\* Mutant: a timestamp exactly toleranceSeconds away is rejected.
verifyStrictTolerance(rawBody, hdr, endpointSecret, toleranceSeconds) ==
    /\ hdr.t # 0 /\ hdr.v1 # <<>>
    /\ Abs(Now - hdr.t) < toleranceSeconds
    /\ timingSafeEqualHex(HmacSHA256(endpointSecret, hdr.t, rawBody), hdr.v1)

\* TRUE iff verifyStripeSignatureAsync returns without throwing
verifyStripeSignatureAsync(rawBody, hdr, endpointSecret, toleranceSeconds) ==
    /\ hdr.t # 0 /\ hdr.v1 # <<>>
    /\ Abs(Now - hdr.t) <= toleranceSeconds
    /\ timingSafeEqualHex(HmacSHA256(endpointSecret, hdr.t, rawBody), hdr.v1)

----------------------------------------------------------------------------
(* State *)

VARIABLES
    kvTotal,        \* value of key total_cents: <<>> (absent) or a decimal string
    kvLatest,       \* value of key latest_payment: <<>> (absent) or <<record>>
    kvMarkers,      \* event ids e whose key "evt:" + e is present
    pc,             \* position of each request in handleStripeWebhook
    req,            \* the request each handler is serving
    cur,            \* addCents: `current`, the total it read
    status,         \* response status (0: no response was sent)
    isNew,          \* markProcessed returned true
    markGetFailed,  \* the get of the dedup marker threw
    markPutFailed,  \* the put of the dedup marker threw
    ledgerFailed,   \* a KV operation of addCents or the put of latest_payment threw
    applied,        \* per event id: number of completed addCents puts
    lastPutBy,      \* the slot whose request wrote total_cents last (0: none,
                    \* or the request that did has left its slot)
    responses,      \* per event id: statuses of its finished verified deliveries
    taint,          \* what has happened so far: "markGetFail", "markPutFail",
                    \* "ledgerFail" (a KV operation threw), "lateFail" (one threw
                    \* after a crash), "crash", "expire", "overlap"
    delivered,      \* number of requests received
    rdPc,           \* position of the request that reads: "idle", "pageLatest"
                    \* (public page, after readGrossAud) or "done"
    rdRoute,        \* the route it serves: "page", "latest" ("none": no request yet)
    rdGross,        \* public page: `gross`, the value readGrossAud returned
    rdLatest,       \* the value getLatestPayment returned: <<>> (null) or <<record>>
    rdStatus,       \* status of its response (0: no response was sent)
    rdThrew,        \* its KV reads that threw: "total", "latest"
    adminToken,     \* env.ADMIN_TOKEN ("": unset or empty)
    adRoute,        \* the last other route served: "set" (/admin/set-latest),
                    \* "reset" (/admin/reset-latest), "diag" ("none": none yet)
    adTok,          \* its token parameter ("": absent or empty)
    adStatus,       \* status of its response (0: none; 500: the worker threw)
    adCount,        \* number of requests to these routes
    markerAge,      \* per event id: seconds since its marker was put (0 while
                    \* the marker is absent), at most the time to live
    alGross,        \* alerting worker: value of key grossAud, in cents (0: absent)
    alFlags,        \* its keys alert:10000, alert:5000, alert:1000, alert:hit
                    \* that are present: "10000", "5000", "1000", "hit"
    alHitAt,        \* value of key milestone_hit_at: <<>> (absent) or <<time>>
    alVersion,      \* value of key milestone_version: <<>> (absent) or <<time>>
    alPc,           \* position of each webhook request of the alerting worker
    alLoc,          \* its locals: amount, gross, k (threshold at hand), hitAt,
                    \* status of the response
    alPosts,        \* per alert: posts to Slack since the last /init
    alToGo,         \* the "to go" posts since the last /init: the remaining
                    \* amount reported, and whether the hit alert had been posted
    alClock,        \* number of times new Date() was read
    alDelivered     \* number of webhook requests received by the alerting worker

vars == <<kvTotal, kvLatest, kvMarkers, pc, req, cur, status, isNew,
          markGetFailed, markPutFailed, ledgerFailed, applied, lastPutBy, responses, taint,
          delivered, rdPc, rdRoute, rdGross, rdLatest, rdStatus, rdThrew,
          adminToken, adRoute, adTok, adStatus, adCount, markerAge,
          alGross, alFlags, alHitAt, alVersion, alPc, alLoc, alPosts, alToGo,
          alClock, alDelivered>>

kv == <<kvTotal, kvLatest, kvMarkers>>
reader == <<rdPc, rdRoute, rdGross, rdLatest, rdStatus, rdThrew>>
locals == <<req, cur, isNew, markGetFailed, markPutFailed, ledgerFailed>>
admin == <<adminToken, adRoute, adTok, adStatus, adCount>>
alerting == <<alGross, alFlags, alHitAt, alVersion, alPc, alLoc, alPosts, alToGo,
              alClock, alDelivered>>
others == <<admin, markerAge, alerting>>
main == <<kv, pc, locals, status, applied, lastPutBy, responses, taint, delivered>>

Alerts == {"10000", "5000", "1000", "hit"}
NoLocals == [amount |-> 0, gross |-> 0, k |-> 0, hitAt |-> 0, status |-> 0]

InFlight == {"markGet", "markPut", "addGet", "addPut", "latestPut"}

AnyRequest == CHOOSE r \in Requests : TRUE

Init ==
    /\ kvTotal = <<>>
    /\ kvLatest = <<>>
    /\ kvMarkers = {}
    /\ pc = [p \in Procs |-> "idle"]
    /\ req = [p \in Procs |-> AnyRequest]
    /\ cur = [p \in Procs |-> 0]
    /\ status = [p \in Procs |-> 0]
    /\ isNew = [p \in Procs |-> FALSE]
    /\ markGetFailed = [p \in Procs |-> FALSE]
    /\ markPutFailed = [p \in Procs |-> FALSE]
    /\ ledgerFailed = [p \in Procs |-> FALSE]
    /\ applied = [e \in EventIds |-> 0]
    /\ lastPutBy = 0
    /\ responses = [e \in EventIds |-> <<>>]
    /\ taint = {}
    /\ delivered = 0
    /\ rdPc = "idle"
    /\ rdRoute = "none"
    /\ rdGross = 0
    /\ rdLatest = <<>>
    /\ rdStatus = 0
    /\ rdThrew = {}
    /\ adminToken = "tok"
    /\ adRoute = "none"
    /\ adTok = ""
    /\ adStatus = 0
    /\ adCount = 0
    /\ markerAge = [e \in EventIds |-> 0]
    /\ alGross = 0
    /\ alFlags = {}
    /\ alHitAt = <<>>
    /\ alVersion = <<>>
    /\ alPc = [p \in Procs |-> "idle"]
    /\ alLoc = [p \in Procs |-> NoLocals]
    /\ alPosts = [a \in Alerts |-> 0]
    /\ alToGo = {}
    /\ alClock = 0
    /\ alDelivered = 0

Event(p) == Bodies[req[p].body]

\* return text(.., code): the request ends with this response
Respond(p, code) ==
    /\ pc' = [pc EXCEPT ![p] = "done"]
    /\ status' = [status EXCEPT ![p] = code]
    /\ responses' = [responses EXCEPT ![Event(p).id] = Append(@, code)]

Continue(p, at) ==
    /\ pc' = [pc EXCEPT ![p] = at]
    /\ UNCHANGED <<status, responses>>

Tainted(what) == taint' = taint \cup what

\* A KV operation threw
Failed(what) == Tainted({what} \cup IF "crash" \in taint THEN {"lateFail"} ELSE {})

----------------------------------------------------------------------------
(* handleStripeWebhook *)

\* TRUE iff the request passes the signature check, JSON.parse and the
\* event id check (lines 113-125: no KV access)
Accepted(r) ==
    /\ verifyStripeSignatureAsync(r.body, r.hdr, Secret, Tolerance)
    /\ Bodies[r.body].json
    /\ Bodies[r.body].id # NoId

\* Mutant: the marker of the event is written when the request arrives,
\* before its signature is checked.
ReceiveMarksFirst(p, r, limit) ==
    /\ pc[p] \in {"idle", "done"}
    /\ \A q \in Procs : q < p => pc[q] \in InFlight
    /\ delivered < limit
    /\ delivered' = delivered + 1
    /\ req' = [req EXCEPT ![p] = r]
    /\ cur' = [cur EXCEPT ![p] = 0]
    /\ isNew' = [isNew EXCEPT ![p] = FALSE]
    /\ markGetFailed' = [markGetFailed EXCEPT ![p] = FALSE]
    /\ markPutFailed' = [markPutFailed EXCEPT ![p] = FALSE]
    /\ ledgerFailed' = [ledgerFailed EXCEPT ![p] = FALSE]
    /\ kvMarkers' = kvMarkers \cup ({Bodies[r.body].id} \ {NoId})
    /\ IF Accepted(r)
       THEN /\ pc' = [pc EXCEPT ![p] = "markGet"]
            /\ status' = [status EXCEPT ![p] = 0]
       ELSE /\ pc' = [pc EXCEPT ![p] = "done"]
            /\ status' = [status EXCEPT ![p] = 400]
    /\ lastPutBy' = IF lastPutBy = p THEN 0 ELSE lastPutBy
    /\ Tainted(IF \E q \in Procs \ {p} : pc[q] \in InFlight THEN {"overlap"} ELSE {})
    /\ UNCHANGED <<kvTotal, kvLatest, applied, responses>>
    /\ UNCHANGED reader
    /\ UNCHANGED others

\* A request arrives and is verified and parsed.  Handler slots are
\* anonymous: a request takes the first slot that has no request in flight.
Receive(p, r, limit) ==
    /\ pc[p] \in {"idle", "done"}
    /\ \A q \in Procs : q < p => pc[q] \in InFlight
    /\ delivered < limit
    /\ delivered' = delivered + 1
    /\ req' = [req EXCEPT ![p] = r]
    /\ cur' = [cur EXCEPT ![p] = 0]
    /\ isNew' = [isNew EXCEPT ![p] = FALSE]
    /\ markGetFailed' = [markGetFailed EXCEPT ![p] = FALSE]
    /\ markPutFailed' = [markPutFailed EXCEPT ![p] = FALSE]
    /\ ledgerFailed' = [ledgerFailed EXCEPT ![p] = FALSE]
    /\ IF Accepted(r)
       THEN /\ pc' = [pc EXCEPT ![p] = "markGet"]
            /\ status' = [status EXCEPT ![p] = 0]
       ELSE /\ pc' = [pc EXCEPT ![p] = "done"]
            /\ status' = [status EXCEPT ![p] = 400]
    /\ lastPutBy' = IF lastPutBy = p THEN 0 ELSE lastPutBy
    /\ Tainted(IF \E q \in Procs \ {p} : pc[q] \in InFlight THEN {"overlap"} ELSE {})
    /\ UNCHANGED <<kv, applied, responses>>
    /\ UNCHANGED reader
    /\ UNCHANGED others

\* String.prototype.toLowerCase on the characters the events carry
LowerChar(c) ==
    CASE c = "A" -> "a" [] c = "U" -> "u" [] c = "D" -> "d" [] OTHER -> c

toLowerCase(s) == [i \in 1..Len(s) |-> LowerChar(s[i])]

\* Mutant: every recognised event type in the target currency is added to
\* the total.
DispatchCountsAll(ev) ==
    IF ev.type \in {ChargeSucceeded, PaymentIntentSucceeded, CheckoutCompleted}
    THEN IF ~ev.hasData THEN [at |-> "done", code |-> 500]
         ELSE IF toLowerCase(ev.currency) = <<"a", "u", "d">>
              THEN [at |-> "addGet", code |-> 0]
              ELSE [at |-> "latestPut", code |-> 0]
    ELSE [at |-> "done", code |-> 200]

\* Mutant: an event of another type is answered as an error.
DispatchUnknownIsError(ev) ==
    IF ev.type \in {ChargeSucceeded, PaymentIntentSucceeded, CheckoutCompleted}
    THEN IF ~ev.hasData THEN [at |-> "done", code |-> 500]
         ELSE IF ev.type = ChargeSucceeded /\ toLowerCase(ev.currency) = <<"a", "u", "d">>
              THEN [at |-> "addGet", code |-> 0]
              ELSE [at |-> "latestPut", code |-> 0]
    ELSE [at |-> "done", code |-> 500]

\* Mutant: the currency is compared without folding its case.
DispatchCaseSensitive(ev) ==
    IF ev.type \in {ChargeSucceeded, PaymentIntentSucceeded, CheckoutCompleted}
    THEN IF ~ev.hasData THEN [at |-> "done", code |-> 500]
         ELSE IF ev.type = ChargeSucceeded /\ ev.currency = <<"a", "u", "d">>
              THEN [at |-> "addGet", code |-> 0]
              ELSE [at |-> "latestPut", code |-> 0]
    ELSE [at |-> "done", code |-> 200]

\* Where the try block goes once markProcessed has returned true, up to its
\* first KV operation: a position, or the status of an immediate response.
\* event.data.object throws a TypeError when the event has no data.
Dispatch(ev) ==
    IF ev.type \in {ChargeSucceeded, PaymentIntentSucceeded, CheckoutCompleted}
    THEN IF ~ev.hasData THEN [at |-> "done", code |-> 500]
         ELSE IF ev.type = ChargeSucceeded /\ toLowerCase(ev.currency) = <<"a", "u", "d">>
              THEN [at |-> "addGet", code |-> 0]
              ELSE [at |-> "latestPut", code |-> 0]
    ELSE [at |-> "done", code |-> 200]

Proceed(p) ==
    LET d == Dispatch(Event(p))
    IN  IF d.at = "done" THEN Respond(p, d.code) ELSE Continue(p, d.at)

\* Mutant: the dedup check never finds a marker.
MarkGetAlwaysNew(p) ==
    /\ pc[p] = "markGet"
    /\ \E ok \in BOOLEAN :
         IF ~ok
         THEN /\ isNew' = [isNew EXCEPT ![p] = TRUE]
              /\ markGetFailed' = [markGetFailed EXCEPT ![p] = TRUE]
              /\ Proceed(p)
              /\ Failed("markGetFail")
         ELSE /\ Continue(p, "markPut")
              /\ UNCHANGED <<isNew, markGetFailed, taint>>
    /\ UNCHANGED <<kv, req, cur, markPutFailed, ledgerFailed, applied, lastPutBy,
                   delivered>>
    /\ UNCHANGED reader
    /\ UNCHANGED others

\* Mutant: the dedup check fails closed, a get that throws ends the request.
MarkGetFailClosed(p) ==
    /\ pc[p] = "markGet"
    /\ \E ok \in BOOLEAN :
         IF ~ok
         THEN /\ markGetFailed' = [markGetFailed EXCEPT ![p] = TRUE]
              /\ Respond(p, 500)
              /\ Failed("markGetFail")
              /\ UNCHANGED isNew
         ELSE IF Event(p).id \in kvMarkers
         THEN /\ Respond(p, 200)
              /\ UNCHANGED <<isNew, markGetFailed, taint>>
         ELSE /\ Continue(p, "markPut")
              /\ UNCHANGED <<isNew, markGetFailed, taint>>
    /\ UNCHANGED <<kv, req, cur, markPutFailed, ledgerFailed, applied, lastPutBy,
                   delivered>>
    /\ UNCHANGED reader
    /\ UNCHANGED others

\* markProcessed: await KV.get(key)
MarkGet(p) ==
    /\ pc[p] = "markGet"
    /\ \E ok \in BOOLEAN :
         IF ~ok
         THEN \* the get throws: caught, markProcessed returns true
              /\ isNew' = [isNew EXCEPT ![p] = TRUE]
              /\ markGetFailed' = [markGetFailed EXCEPT ![p] = TRUE]
              /\ Proceed(p)
              /\ Failed("markGetFail")
         ELSE IF Event(p).id \in kvMarkers
         THEN \* markProcessed returns false
              /\ Respond(p, 200)
              /\ UNCHANGED <<isNew, markGetFailed, taint>>
         ELSE /\ Continue(p, "markPut")
              /\ UNCHANGED <<isNew, markGetFailed, taint>>
    /\ UNCHANGED <<kv, req, cur, markPutFailed, ledgerFailed, applied, lastPutBy,
                   delivered>>
    /\ UNCHANGED reader
    /\ UNCHANGED others

\* Mutant: the marker is never written.
MarkPutNoWrite(p) ==
    /\ pc[p] = "markPut"
    /\ isNew' = [isNew EXCEPT ![p] = TRUE]
    /\ Proceed(p)
    /\ UNCHANGED <<kv, req, cur, markGetFailed, markPutFailed, ledgerFailed,
                   applied, lastPutBy, taint, delivered>>
    /\ UNCHANGED reader
    /\ UNCHANGED others

\* markProcessed: await KV.put(key, "1", {expirationTtl}); returns true
\* whether the put returned or threw
MarkPut(p) ==
    /\ pc[p] = "markPut"
    /\ \E ok \in BOOLEAN :
         /\ kvMarkers' = IF ok THEN kvMarkers \cup {Event(p).id} ELSE kvMarkers
         /\ markPutFailed' = [markPutFailed EXCEPT ![p] = ~ok]
         /\ IF ok THEN UNCHANGED taint ELSE Failed("markPutFail")
    /\ isNew' = [isNew EXCEPT ![p] = TRUE]
    /\ Proceed(p)
    /\ UNCHANGED <<kvTotal, kvLatest, req, cur, markGetFailed, ledgerFailed,
                   applied, lastPutBy, delivered>>
    /\ UNCHANGED reader
    /\ UNCHANGED others

\* addCents: const raw = (await KV.get(GROSS_KEY)) ?? "0"; current = parseInt..
AddGet(p) ==
    /\ pc[p] = "addGet"
    /\ \E ok \in BOOLEAN :
         IF ok
         THEN /\ cur' = [cur EXCEPT ![p] =
                           ParseIntOrZero(IF kvTotal = <<>> THEN <<0>> ELSE kvTotal)]
              /\ Continue(p, "addPut")
              /\ UNCHANGED <<ledgerFailed, taint>>
         ELSE /\ ledgerFailed' = [ledgerFailed EXCEPT ![p] = TRUE]
              /\ Respond(p, 500)
              /\ Failed("ledgerFail")
              /\ UNCHANGED cur
    /\ UNCHANGED <<kv, req, isNew, markGetFailed, markPutFailed, applied, lastPutBy,
                   delivered>>
    /\ UNCHANGED reader
    /\ UNCHANGED others

\* addCents: next = current + Math.max(0, cents | 0), cents = ch.amount || 0
NextTotal(current, amount) == current + Max(0, ToInt32(OrZero(amount)))

StoredTotal == ParseIntOrZero(IF kvTotal = <<>> THEN <<0>> ELSE kvTotal)

\* Mutant: the put adds to the value stored now (an atomic increment).
AddPutAtomic(p) ==
    /\ pc[p] = "addPut"
    /\ \E ok \in BOOLEAN :
         IF ok
         THEN /\ kvTotal' = String(NextTotal(StoredTotal, Event(p).amount))
              /\ applied' = [applied EXCEPT ![Event(p).id] = @ + 1]
              /\ lastPutBy' = p
              /\ Continue(p, "latestPut")
              /\ UNCHANGED <<ledgerFailed, taint>>
         ELSE /\ ledgerFailed' = [ledgerFailed EXCEPT ![p] = TRUE]
              /\ Respond(p, 500)
              /\ Failed("ledgerFail")
              /\ UNCHANGED <<kvTotal, applied, lastPutBy>>
    /\ UNCHANGED <<kvLatest, kvMarkers, req, cur, isNew, markGetFailed,
                   markPutFailed, delivered>>
    /\ UNCHANGED reader
    /\ UNCHANGED others

\* Mutant: addCents starts again when its put throws.
AddPutRetries(p) ==
    /\ pc[p] = "addPut"
    /\ \E ok \in BOOLEAN :
         IF ok
         THEN /\ kvTotal' = String(NextTotal(cur[p], Event(p).amount))
              /\ applied' = [applied EXCEPT ![Event(p).id] = @ + 1]
              /\ lastPutBy' = p
              /\ Continue(p, "latestPut")
              /\ UNCHANGED <<ledgerFailed, taint>>
         ELSE /\ ledgerFailed' = [ledgerFailed EXCEPT ![p] = TRUE]
              /\ Continue(p, "addGet")
              /\ Failed("ledgerFail")
              /\ UNCHANGED <<kvTotal, applied, lastPutBy>>
    /\ UNCHANGED <<kvLatest, kvMarkers, req, cur, isNew, markGetFailed,
                   markPutFailed, delivered>>
    /\ UNCHANGED reader
    /\ UNCHANGED others

\* addCents: await KV.put(GROSS_KEY, String(next))
AddPut(p) ==
    /\ pc[p] = "addPut"
    /\ \E ok \in BOOLEAN :
         IF ok
         THEN /\ kvTotal' = String(NextTotal(cur[p], Event(p).amount))
              /\ applied' = [applied EXCEPT ![Event(p).id] = @ + 1]
              /\ lastPutBy' = p
              /\ Continue(p, "latestPut")
              /\ UNCHANGED <<ledgerFailed, taint>>
         ELSE /\ ledgerFailed' = [ledgerFailed EXCEPT ![p] = TRUE]
              /\ Respond(p, 500)
              /\ Failed("ledgerFail")
              /\ UNCHANGED <<kvTotal, applied, lastPutBy>>
    /\ UNCHANGED <<kvLatest, kvMarkers, req, cur, isNew, markGetFailed,
                   markPutFailed, delivered>>
    /\ UNCHANGED reader
    /\ UNCHANGED others

\* Mutant: the record holds the amount as the event carries it.
LatestRecordMinorUnits(ev) ==
    [name |-> IF ev.name = "" THEN "Unknown" ELSE ev.name,
     amount |-> [num |-> ev.amount, den |-> 1],
     createdMs |-> ev.created * 1000]

\* JSON.stringify({ name, amount: amountAud, created: createdISO })
\* amountAud = amount / 100 is kept as the fraction num / den.
LatestRecord(ev) ==
    [name |-> IF ev.name = "" THEN "Unknown" ELSE ev.name,
     amount |-> [num |-> ev.amount, den |-> 100],
     createdMs |-> ev.created * 1000]

\* Mutant: safePut swallows the error of the put.
LatestPutSwallow(p) ==
    /\ pc[p] = "latestPut"
    /\ \E ok \in BOOLEAN :
         IF ok
         THEN /\ kvLatest' = <<LatestRecord(Event(p))>>
              /\ Respond(p, 200)
              /\ UNCHANGED <<ledgerFailed, taint>>
         ELSE /\ ledgerFailed' = [ledgerFailed EXCEPT ![p] = TRUE]
              /\ Respond(p, 200)
              /\ Failed("ledgerFail")
              /\ UNCHANGED kvLatest
    /\ UNCHANGED <<kvTotal, kvMarkers, req, cur, isNew, markGetFailed,
                   markPutFailed, applied, lastPutBy, delivered>>
    /\ UNCHANGED reader
    /\ UNCHANGED others

\* Mutant: the put keeps the stored record when its timestamp is later
\* than the timestamp of the event.
LatestPutKeepsNewest(p) ==
    /\ pc[p] = "latestPut"
    /\ \E ok \in BOOLEAN :
         IF ok
         THEN /\ kvLatest' =
                    IF kvLatest # <<>>
                       /\ kvLatest[1].createdMs > LatestRecord(Event(p)).createdMs
                    THEN kvLatest
                    ELSE <<LatestRecord(Event(p))>>
              /\ Respond(p, 200)
              /\ UNCHANGED <<ledgerFailed, taint>>
         ELSE /\ ledgerFailed' = [ledgerFailed EXCEPT ![p] = TRUE]
              /\ Respond(p, 500)
              /\ Failed("ledgerFail")
              /\ UNCHANGED kvLatest
    /\ UNCHANGED <<kvTotal, kvMarkers, req, cur, isNew, markGetFailed,
                   markPutFailed, applied, lastPutBy, delivered>>
    /\ UNCHANGED reader
    /\ UNCHANGED others

\* await safePut(env, LATEST_KEY, ..); return text("ok", 200)
LatestPut(p) ==
    /\ pc[p] = "latestPut"
    /\ \E ok \in BOOLEAN :
         IF ok
         THEN /\ kvLatest' = <<LatestRecord(Event(p))>>
              /\ Respond(p, 200)
              /\ UNCHANGED <<ledgerFailed, taint>>
         ELSE /\ ledgerFailed' = [ledgerFailed EXCEPT ![p] = TRUE]
              /\ Respond(p, 500)
              /\ Failed("ledgerFail")
              /\ UNCHANGED kvLatest
    /\ UNCHANGED <<kvTotal, kvMarkers, req, cur, isNew, markGetFailed,
                   markPutFailed, applied, lastPutBy, delivered>>
    /\ UNCHANGED reader
    /\ UNCHANGED others

----------------------------------------------------------------------------
(* The read path: the public page and /latest-payment *)

ReadFallback == 988100    \* readGrossAud: the value returned when the get throws

\* Math.round(num / den), den > 0: the integer nearest to the quotient, the
\* higher one when the quotient lies halfway between two integers.
MathRound(num, den) ==
    LET whole == num \div den
        rest == num % den
    IN  IF 2 * rest >= den THEN whole + 1 ELSE whole

\* Mutant: the quotient is cut to its integer part (Math.floor).
RoundToAudFloor(cents) == cents \div 100

\* Math.round(cents / 100)
RoundToAud(cents) == MathRound(cents, 100)

\* Mutant: an absent key reads as the fallback value.
readGrossAudAbsentFallback(raw) ==
    IF raw = <<>> THEN ReadFallback ELSE RoundToAud(ParseIntOrZero(raw))

\* readGrossAud when the get returns raw (<<>>: the key is absent)
readGrossAud(raw) ==
    RoundToAud(ParseIntOrZero(IF raw = <<>> THEN <<0>> ELSE raw))

\* getLatestPayment when the get returns raw: raw ? JSON.parse(raw) : null.
\* The stored text is the JSON.stringify of a record, which JSON.parse
\* turns back into the record.
getLatestPayment(raw) == IF raw = <<>> THEN <<>> ELSE <<raw[1]>>

\* Mutant: readGrossAud lets the error of the get through, the page is
\* answered by the catch of fetch.
PageGrossPropagates ==
    /\ rdPc \in {"idle", "done"}
    /\ rdRoute' = "page"
    /\ \E ok \in BOOLEAN :
         /\ rdGross' = IF ok THEN readGrossAud(kvTotal) ELSE 0
         /\ rdThrew' = IF ok THEN {} ELSE {"total"}
         /\ rdPc' = IF ok THEN "pageLatest" ELSE "done"
         /\ rdStatus' = IF ok THEN 0 ELSE 500
    /\ rdLatest' = <<>>
    /\ UNCHANGED <<kv, pc, locals, status, applied, lastPutBy, responses, taint,
                   delivered>>
    /\ UNCHANGED others

\* Public page: gross = await readGrossAud(env).  The get returns or
\* throws; a throw is caught inside readGrossAud.
PageGross ==
    /\ rdPc \in {"idle", "done"}
    /\ rdPc' = "pageLatest"
    /\ rdRoute' = "page"
    /\ \E ok \in BOOLEAN :
         /\ rdGross' = IF ok THEN readGrossAud(kvTotal) ELSE ReadFallback
         /\ rdThrew' = IF ok THEN {} ELSE {"total"}
    /\ rdLatest' = <<>>
    /\ rdStatus' = 0
    /\ UNCHANGED <<kv, pc, locals, status, applied, lastPutBy, responses, taint,
                   delivered>>
    /\ UNCHANGED others

\* Public page: latestPayment = await getLatestPayment(env); renderPage
\* formats the values and the page is returned with status 200.
PageLatest ==
    /\ rdPc = "pageLatest"
    /\ rdPc' = "done"
    /\ \E ok \in BOOLEAN :
         /\ rdLatest' = IF ok THEN getLatestPayment(kvLatest) ELSE <<>>
         /\ rdThrew' = IF ok THEN rdThrew ELSE rdThrew \cup {"latest"}
    /\ rdStatus' = 200
    /\ UNCHANGED <<kv, pc, locals, status, applied, lastPutBy, responses, taint,
                   delivered, rdRoute, rdGross>>
    /\ UNCHANGED others

\* /latest-payment: lp = await getLatestPayment(env); return json(lp ?? {})
LatestPayment ==
    /\ rdPc \in {"idle", "done"}
    /\ rdPc' = "done"
    /\ rdRoute' = "latest"
    /\ \E ok \in BOOLEAN :
         /\ rdLatest' = IF ok THEN getLatestPayment(kvLatest) ELSE <<>>
         /\ rdThrew' = IF ok THEN {} ELSE {"latest"}
    /\ rdGross' = 0
    /\ rdStatus' = 200
    /\ UNCHANGED <<kv, pc, locals, status, applied, lastPutBy, responses, taint,
                   delivered>>
    /\ UNCHANGED others

----------------------------------------------------------------------------
(* The other routes of fetch: /__diag, /admin/set-latest, /admin/reset-latest *)

AdminTokens == {"", "tok"}          \* env.ADMIN_TOKEN: unset or empty, or set
TokenParams == {"", "tok", "bad"}   \* ?token=: absent or empty, right, wrong
NameParams == {"", "Admin Payer"}   \* ?name=: absent or empty, given
AmountParams == {<<>>, <<7>>}       \* ?amount=: absent or empty, given

\* Mutant: the token parameter is only compared with ADMIN_TOKEN.
isAuthorisedCompareOnly(token, adminTok) == token = adminTok

\* Boolean(env.ADMIN_TOKEN && token && token === env.ADMIN_TOKEN)
isAuthorised(token, adminTok) ==
    adminTok # "" /\ token # "" /\ token = adminTok

\* { name, amount, created: new Date().toISOString() } of /admin/set-latest
AdminRecord(name, amount) ==
    [name |-> IF name = "" THEN "Test Payer" ELSE name,
     amount |-> [num |-> Num(IF amount = <<>> THEN 42 ELSE amount[1]), den |-> 1],
     createdMs |-> Now * 1000]

\* /admin/set-latest: the put is not guarded, a throw leaves fetch
AdminSetLatest(token, name, amount) ==
    /\ adCount < MaxAdminRequests
    /\ adCount' = adCount + 1
    /\ adRoute' = "set"
    /\ adTok' = token
    /\ IF ~isAuthorised(token, adminToken)
       THEN adStatus' = 401 /\ UNCHANGED kvLatest
       ELSE \E ok \in BOOLEAN :
              IF ok
              THEN adStatus' = 200 /\ kvLatest' = <<AdminRecord(name, amount)>>
              ELSE adStatus' = 500 /\ UNCHANGED kvLatest
    /\ UNCHANGED <<kvTotal, kvMarkers, pc, locals, status, applied, lastPutBy,
                   responses, taint, delivered, adminToken, markerAge>>
    /\ UNCHANGED reader
    /\ UNCHANGED alerting

\* Mutant: the reset clears the total as well.
AdminResetLatestClearsTotal(token) ==
    /\ adCount < MaxAdminRequests
    /\ adCount' = adCount + 1
    /\ adRoute' = "reset"
    /\ adTok' = token
    /\ IF ~isAuthorised(token, adminToken)
       THEN adStatus' = 401 /\ UNCHANGED <<kvLatest, kvTotal>>
       ELSE /\ adStatus' = 200
            /\ \E ok \in BOOLEAN :
                 IF ok THEN kvLatest' = <<>> /\ kvTotal' = <<>>
                 ELSE UNCHANGED <<kvLatest, kvTotal>>
    /\ UNCHANGED <<kvMarkers, pc, locals, status, applied, lastPutBy,
                   responses, taint, delivered, adminToken, markerAge>>
    /\ UNCHANGED reader
    /\ UNCHANGED alerting

\* /admin/reset-latest: try { await KV.delete(LATEST_KEY) } catch {}
AdminResetLatest(token) ==
    /\ adCount < MaxAdminRequests
    /\ adCount' = adCount + 1
    /\ adRoute' = "reset"
    /\ adTok' = token
    /\ IF ~isAuthorised(token, adminToken)
       THEN adStatus' = 401 /\ UNCHANGED kvLatest
       ELSE /\ adStatus' = 200
            /\ \E ok \in BOOLEAN :
                 IF ok THEN kvLatest' = <<>> ELSE UNCHANGED kvLatest
    /\ UNCHANGED <<kvTotal, kvMarkers, pc, locals, status, applied, lastPutBy,
                   responses, taint, delivered, adminToken, markerAge>>
    /\ UNCHANGED reader
    /\ UNCHANGED alerting

\* /__diag: await KV.get("any"), 200 or, when the get throws, 500
Diag ==
    /\ adCount < MaxAdminRequests
    /\ adCount' = adCount + 1
    /\ adRoute' = "diag"
    /\ adTok' = ""
    /\ \E ok \in BOOLEAN : adStatus' = IF ok THEN 200 ELSE 500
    /\ UNCHANGED <<kv, pc, locals, status, applied, lastPutBy, responses, taint,
                   delivered, adminToken, markerAge>>
    /\ UNCHANGED reader
    /\ UNCHANGED alerting

----------------------------------------------------------------------------
(* The alerting worker: /init and /stripe-webhook with Slack alerts.  Its   *)
(* store is the namespace KV; amounts are kept in cents.                   *)

TARGET == 1000000                 \* AUD
TargetCents == TARGET * 100
Thresholds == <<10000, 5000, 1000>>     \* AUD "to go"
FlagOf(k) == <<"10000", "5000", "1000">>[k]   \* alert:10000, alert:5000, alert:1000

\* What a webhook body of the alerting worker carries
AlertBodies == <<
    [type |-> ChargeSucceeded, currency |-> <<"a", "u", "d">>, amount |-> 60000],
    [type |-> ChargeSucceeded, currency |-> <<"A", "U", "D">>, amount |-> 60000],
    [type |-> PaymentIntentSucceeded, currency |-> <<"a", "u", "d">>, amount |-> 60000]
>>

\* Requests: a body with the header the sender computes, or with a digest
\* made with another key
AlertRequests ==
    {[body |-> b, hdr |-> [t |-> <<Now>>, v1 |-> HmacSHA256(Secret, Now, b)]] :
        b \in 1..Len(AlertBodies)}
      \cup {[body |-> 1, hdr |-> [t |-> <<Now>>, v1 |-> HmacSHA256("whsec_other", Now, 1)]]}

\* verifyStripe: t and v1 present, then the length check and the loop
verifyStripe(payload, hdr, secret) ==
    /\ secret # ""
    /\ hdr.t # <<>> /\ hdr.v1 # <<>>
    /\ LET calc == HmacSHA256(secret, hdr.t[1], payload)
       IN  /\ Len(calc) = Len(hdr.v1)
           /\ CompareLoop(calc, hdr.v1, 1, [res |-> 0, visited |-> 0]).res = 0

AlInFlight == {"getGross", "putGross", "getHit", "putHit", "putHitAt", "putVersion",
               "postHit", "getFlag", "putFlag", "postFlag"}

\* The else branch from the k-th test on: the first threshold with
\* remaining <= threshold leads to the get of its flag; with none left the
\* request returns text("ok")
ElseFrom(p, k, loc) ==
    LET due == {i \in k..Len(Thresholds) :
                   TargetCents - loc.gross <= Thresholds[i] * 100}
    IN  IF due = {}
        THEN /\ alPc' = [alPc EXCEPT ![p] = "done"]
             /\ alLoc' = [alLoc EXCEPT ![p] = [loc EXCEPT !.status = 200]]
        ELSE /\ alPc' = [alPc EXCEPT ![p] = "getFlag"]
             /\ alLoc' = [alLoc EXCEPT ![p] =
                             [loc EXCEPT !.k = CHOOSE i \in due : \A j \in due : i <= j]]

\* /stripe-webhook up to const prev = await getGross(env)
AlReceive(p, r, limit) ==
    /\ alPc[p] \in {"idle", "done"}
    /\ \A q \in Procs : q < p => alPc[q] \in AlInFlight
    /\ alDelivered < limit
    /\ alDelivered' = alDelivered + 1
    /\ LET ev == AlertBodies[r.body]
       IN  IF ~verifyStripe(r.body, r.hdr, Secret)
           THEN /\ alPc' = [alPc EXCEPT ![p] = "done"]
                /\ alLoc' = [alLoc EXCEPT ![p] = [NoLocals EXCEPT !.status = 400]]
           ELSE IF ev.type = ChargeSucceeded /\ ev.currency = <<"a", "u", "d">>
           THEN /\ alPc' = [alPc EXCEPT ![p] = "getGross"]
                /\ alLoc' = [alLoc EXCEPT ![p] = [NoLocals EXCEPT !.amount = ev.amount]]
           ELSE /\ alPc' = [alPc EXCEPT ![p] = "done"]
                /\ alLoc' = [alLoc EXCEPT ![p] = [NoLocals EXCEPT !.status = 200]]
    /\ UNCHANGED <<alGross, alFlags, alHitAt, alVersion, alPosts, alToGo, alClock>>
    /\ UNCHANGED <<main, reader, admin, markerAge>>

\* const prev = await getGross(env); const gross = prev + inc
AlGetGross(p) ==
    /\ alPc[p] = "getGross"
    /\ alPc' = [alPc EXCEPT ![p] = "putGross"]
    /\ alLoc' = [alLoc EXCEPT ![p].gross = alGross + alLoc[p].amount]
    /\ UNCHANGED <<alGross, alFlags, alHitAt, alVersion, alPosts, alToGo, alClock,
                   alDelivered>>
    /\ UNCHANGED <<main, reader, admin, markerAge>>

\* await env.KV.put("grossAud", String(gross)), then the test gross >= TARGET
AlPutGross(p) ==
    /\ alPc[p] = "putGross"
    /\ alGross' = alLoc[p].gross
    /\ IF alLoc[p].gross >= TargetCents
       THEN alPc' = [alPc EXCEPT ![p] = "getHit"] /\ UNCHANGED alLoc
       ELSE ElseFrom(p, 1, alLoc[p])
    /\ UNCHANGED <<alFlags, alHitAt, alVersion, alPosts, alToGo, alClock, alDelivered>>
    /\ UNCHANGED <<main, reader, admin, markerAge>>

\* gross >= TARGET && !(await env.KV.get("alert:hit"))
AlGetHit(p) ==
    /\ alPc[p] = "getHit"
    /\ IF "hit" \notin alFlags
       THEN alPc' = [alPc EXCEPT ![p] = "putHit"] /\ UNCHANGED alLoc
       ELSE ElseFrom(p, 1, alLoc[p])
    /\ UNCHANGED <<alGross, alFlags, alHitAt, alVersion, alPosts, alToGo, alClock,
                   alDelivered>>
    /\ UNCHANGED <<main, reader, admin, markerAge>>

\* await env.KV.put("alert:hit", "1"); const hitAt = new Date().toISOString()
AlPutHit(p) ==
    /\ alPc[p] = "putHit"
    /\ alFlags' = alFlags \cup {"hit"}
    /\ alClock' = alClock + 1
    /\ alLoc' = [alLoc EXCEPT ![p].hitAt = alClock + 1]
    /\ alPc' = [alPc EXCEPT ![p] = "putHitAt"]
    /\ UNCHANGED <<alGross, alHitAt, alVersion, alPosts, alToGo, alDelivered>>
    /\ UNCHANGED <<main, reader, admin, markerAge>>

\* await env.KV.put("milestone_hit_at", hitAt)
AlPutHitAt(p) ==
    /\ alPc[p] = "putHitAt"
    /\ alHitAt' = <<alLoc[p].hitAt>>
    /\ alPc' = [alPc EXCEPT ![p] = "putVersion"]
    /\ UNCHANGED <<alGross, alFlags, alVersion, alLoc, alPosts, alToGo, alClock,
                   alDelivered>>
    /\ UNCHANGED <<main, reader, admin, markerAge>>

\* await env.KV.put("milestone_version", version)
AlPutVersion(p) ==
    /\ alPc[p] = "putVersion"
    /\ alVersion' = <<alLoc[p].hitAt>>
    /\ alPc' = [alPc EXCEPT ![p] = "postHit"]
    /\ UNCHANGED <<alGross, alFlags, alHitAt, alLoc, alPosts, alToGo, alClock,
                   alDelivered>>
    /\ UNCHANGED <<main, reader, admin, markerAge>>

\* await postSlack(.., "SAMii just hit A$1,000,000 ..."); return text("ok")
AlPostHit(p) ==
    /\ alPc[p] = "postHit"
    /\ alPosts' = [alPosts EXCEPT !["hit"] = @ + 1]
    /\ alPc' = [alPc EXCEPT ![p] = "done"]
    /\ alLoc' = [alLoc EXCEPT ![p].status = 200]
    /\ UNCHANGED <<alGross, alFlags, alHitAt, alVersion, alToGo, alClock, alDelivered>>
    /\ UNCHANGED <<main, reader, admin, markerAge>>

\* remaining <= threshold && !(await env.KV.get("alert:<threshold>"))
AlGetFlag(p) ==
    /\ alPc[p] = "getFlag"
    /\ IF FlagOf(alLoc[p].k) \notin alFlags
       THEN alPc' = [alPc EXCEPT ![p] = "putFlag"] /\ UNCHANGED alLoc
       ELSE ElseFrom(p, alLoc[p].k + 1, alLoc[p])
    /\ UNCHANGED <<alGross, alFlags, alHitAt, alVersion, alPosts, alToGo, alClock,
                   alDelivered>>
    /\ UNCHANGED <<main, reader, admin, markerAge>>

\* await env.KV.put("alert:<threshold>", "1")
AlPutFlag(p) ==
    /\ alPc[p] = "putFlag"
    /\ alFlags' = alFlags \cup {FlagOf(alLoc[p].k)}
    /\ alPc' = [alPc EXCEPT ![p] = "postFlag"]
    /\ UNCHANGED <<alGross, alHitAt, alVersion, alLoc, alPosts, alToGo, alClock,
                   alDelivered>>
    /\ UNCHANGED <<main, reader, admin, markerAge>>

\* await postSlack(.., "Under <threshold> to go: A$<remaining>"), then the
\* next test
AlPostFlag(p) ==
    /\ alPc[p] = "postFlag"
    /\ alPosts' = [alPosts EXCEPT ![FlagOf(alLoc[p].k)] = @ + 1]
    /\ alToGo' = alToGo \cup {[remaining |-> TargetCents - alLoc[p].gross,
                                afterHit |-> alPosts["hit"] > 0]}
    /\ ElseFrom(p, alLoc[p].k + 1, alLoc[p])
    /\ UNCHANGED <<alGross, alFlags, alHitAt, alVersion, alClock, alDelivered>>
    /\ UNCHANGED <<main, reader, admin, markerAge>>

\* Seeds of /init?value=, AUD
InitValues == {989500, 999500}

\* /init while no webhook request is in progress: the put of grossAud and
\* the six deletes
AlInit(value) ==
    /\ \A q \in Procs : alPc[q] \notin AlInFlight
    /\ alGross # value * 100 \/ alFlags # {} \/ alHitAt # <<>> \/ alVersion # <<>>
    /\ alGross' = value * 100
    /\ alFlags' = {}
    /\ alHitAt' = <<>>
    /\ alVersion' = <<>>
    /\ alPosts' = [a \in Alerts |-> 0]
    /\ alToGo' = {}
    /\ UNCHANGED <<alPc, alLoc, alClock, alDelivered>>
    /\ UNCHANGED <<main, reader, admin, markerAge>>

----------------------------------------------------------------------------
(* Environment *)

\* The worker dies while a request is in flight: no response is sent,
\* nothing is undone, the handler slot is free again.  The delivery is
\* recorded with status 0.
Crash(p) ==
    /\ pc[p] \in InFlight
    /\ pc' = [pc EXCEPT ![p] = "idle"]
    /\ status' = [status EXCEPT ![p] = 0]
    /\ cur' = [cur EXCEPT ![p] = 0]
    /\ req' = [req EXCEPT ![p] = AnyRequest]
    /\ isNew' = [isNew EXCEPT ![p] = FALSE]
    /\ markGetFailed' = [markGetFailed EXCEPT ![p] = FALSE]
    /\ markPutFailed' = [markPutFailed EXCEPT ![p] = FALSE]
    /\ ledgerFailed' = [ledgerFailed EXCEPT ![p] = FALSE]
    /\ responses' = [responses EXCEPT ![Event(p).id] = Append(@, 0)]
    /\ lastPutBy' = IF lastPutBy = p THEN 0 ELSE lastPutBy
    /\ Tainted({"crash"})
    /\ UNCHANGED <<kv, applied, delivered>>
    /\ UNCHANGED reader
    /\ UNCHANGED others

\* expirationTtl: the KV namespace drops a marker 14 days after its put.
Expire(e) ==
    /\ e \in kvMarkers
    /\ kvMarkers' = kvMarkers \ {e}
    /\ Tainted({"expire"})
    /\ UNCHANGED <<kvTotal, kvLatest, pc, locals, status, applied, lastPutBy,
                   responses, delivered>>
    /\ UNCHANGED reader
    /\ UNCHANGED others

\* Mutant: the markers are put with a time to live of one day.
MarkerTtlOneDay == 60 * 60 * 24

\* expirationTtl of the marker put, in seconds
MarkerTtl == 60 * 60 * 24 * 14

\* Time passes between two requests: d seconds
TickSeconds == {MarkerTtl \div 2, MarkerTtl - 1}

Tick(d) ==
    /\ \A q \in Procs : pc[q] \notin InFlight
    /\ \E e \in kvMarkers : markerAge[e] < MarkerTtl
    /\ markerAge' = [e \in EventIds |->
                        IF e \in kvMarkers
                        THEN IF markerAge[e] + d > MarkerTtl THEN MarkerTtl
                             ELSE markerAge[e] + d
                        ELSE 0]
    /\ UNCHANGED <<kv, pc, locals, status, applied, lastPutBy, responses, taint,
                   delivered>>
    /\ UNCHANGED reader
    /\ UNCHANGED admin
    /\ UNCHANGED alerting

\* The store drops a marker when its time to live has passed
ExpireAfterTtl(e) ==
    /\ e \in kvMarkers
    /\ markerAge[e] >= MarkerTtl
    /\ kvMarkers' = kvMarkers \ {e}
    /\ markerAge' = [markerAge EXCEPT ![e] = 0]
    /\ Tainted({"expire"})
    /\ UNCHANGED <<kvTotal, kvLatest, pc, locals, status, applied, lastPutBy,
                   responses, delivered>>
    /\ UNCHANGED reader
    /\ UNCHANGED admin
    /\ UNCHANGED alerting

\* The correctly signed request for the event with id e
Delivery(e) ==
    CHOOSE r \in Requests : Accepted(r) /\ Bodies[r.body].id = e

\* Concurrent deliveries: charges in the target currency (one of them with
\* an amount of 2^31) and a payment intent, handled concurrently.
ConcurrentRequests == {Delivery(e) : e \in {"evt_1", "evt_2", "evt_4", "evt_5"}}

Next ==
    \/ \E p \in Procs, r \in ConcurrentRequests : Receive(p, r, MaxDeliveries)
    \/ \E p \in Procs : MarkGet(p)
    \/ \E p \in Procs : MarkPut(p)
    \/ \E p \in Procs : AddGet(p)
    \/ \E p \in Procs : AddPut(p)
    \/ \E p \in Procs : LatestPut(p)
    \/ \E p \in Procs : Crash(p)
    \/ \E e \in EventIds : Expire(e)

Spec == Init /\ [][Next]_vars

\* The sender delivers one request at a time: the next request is sent
\* when the previous one has been answered or has died.  Every request of
\* the catalogue may be sent.
NoneInFlight == \A q \in Procs : pc[q] \notin InFlight

NextSeq ==
    \/ \E p \in Procs, r \in Requests :
          NoneInFlight /\ Receive(p, r, MaxSeqDeliveries)
    \/ \E p \in Procs : MarkGet(p)
    \/ \E p \in Procs : MarkPut(p)
    \/ \E p \in Procs : AddGet(p)
    \/ \E p \in Procs : AddPut(p)
    \/ \E p \in Procs : LatestPut(p)
    \/ \E p \in Procs : Crash(p)
    \/ \E e \in EventIds : Expire(e)

SpecSeq == Init /\ [][NextSeq]_vars

\* The sender delivers charges in the target currency, and delivers them
\* again, one request at a time.
RedeliveredRequests == {Delivery(e) : e \in {"evt_1", "evt_2"}}

NextRedeliver ==
    \/ \E p \in Procs, r \in RedeliveredRequests :
          NoneInFlight /\ Receive(p, r, MaxRedeliveries)
    \/ \E p \in Procs : MarkGet(p)
    \/ \E p \in Procs : MarkPut(p)
    \/ \E p \in Procs : AddGet(p)
    \/ \E p \in Procs : AddPut(p)
    \/ \E p \in Procs : LatestPut(p)
    \/ \E p \in Procs : Crash(p)
    \/ \E e \in EventIds : Expire(e)

SpecRedeliver == Init /\ [][NextRedeliver]_vars

\* The sender signs the first charge at a time before or after the clock
\* of the worker and delivers it, one request at a time.
TimeOffsets == {-3601, -1801, -1800, -1799, 0, 1799, 1800, 1801}

TimedRequests == {[body |-> 1, hdr |-> Signed(Secret, Now + d, 1)] : d \in TimeOffsets}

NextTimed ==
    \/ \E p \in Procs, r \in TimedRequests :
          NoneInFlight /\ Receive(p, r, MaxSeqDeliveries)
    \/ \E p \in Procs : MarkGet(p)
    \/ \E p \in Procs : MarkPut(p)
    \/ \E p \in Procs : AddGet(p)
    \/ \E p \in Procs : AddPut(p)
    \/ \E p \in Procs : LatestPut(p)
    \/ \E p \in Procs : Crash(p)
    \/ \E e \in EventIds : Expire(e)

SpecTimed == Init /\ [][NextTimed]_vars

\* Readers load the public page and /latest-payment while charges in the
\* target currency are delivered, one webhook request at a time.
NextRead ==
    \/ \E p \in Procs, r \in RedeliveredRequests :
          NoneInFlight /\ Receive(p, r, MaxSeqDeliveries)
    \/ \E p \in Procs : MarkGet(p)
    \/ \E p \in Procs : MarkPut(p)
    \/ \E p \in Procs : AddGet(p)
    \/ \E p \in Procs : AddPut(p)
    \/ \E p \in Procs : LatestPut(p)
    \/ \E p \in Procs : Crash(p)
    \/ \E e \in EventIds : Expire(e)
    \/ PageGross
    \/ PageLatest
    \/ LatestPayment

SpecRead == Init /\ [][NextRead]_vars

\* The sender delivers one request at a time and no request dies: every KV
\* operation a request awaits returns or throws, so a request that can
\* take its next step takes it.
LiveRequests ==
    {Delivery(e) : e \in {"evt_1", "evt_3", "evt_5", "evt_6", "evt_7"}}
        \cup {r \in Requests : ~Accepted(r)}

NextLive ==
    \/ \E p \in Procs, r \in LiveRequests :
          NoneInFlight /\ Receive(p, r, MaxSeqDeliveries)
    \/ \E p \in Procs : MarkGet(p)
    \/ \E p \in Procs : MarkPut(p)
    \/ \E p \in Procs : AddGet(p)
    \/ \E p \in Procs : AddPut(p)
    \/ \E p \in Procs : LatestPut(p)

\* Readers load the public page and /latest-payment over a stored total of
\* any value up to MaxStoredCents, or close to the fallback value, or over
\* an absent total.
StoredTotals ==
    {<<>>} \cup {String(c) : c \in (0 .. MaxStoredCents) \cup {988049, 988050, 988051}}

InitRound ==
    /\ kvTotal \in StoredTotals
    /\ kvLatest = <<>>
    /\ kvMarkers = {}
    /\ pc = [p \in Procs |-> "idle"]
    /\ req = [p \in Procs |-> AnyRequest]
    /\ cur = [p \in Procs |-> 0]
    /\ status = [p \in Procs |-> 0]
    /\ isNew = [p \in Procs |-> FALSE]
    /\ markGetFailed = [p \in Procs |-> FALSE]
    /\ markPutFailed = [p \in Procs |-> FALSE]
    /\ ledgerFailed = [p \in Procs |-> FALSE]
    /\ applied = [e \in EventIds |-> 0]
    /\ lastPutBy = 0
    /\ responses = [e \in EventIds |-> <<>>]
    /\ taint = {}
    /\ delivered = 0
    /\ rdPc = "idle"
    /\ rdRoute = "none"
    /\ rdGross = 0
    /\ rdLatest = <<>>
    /\ rdStatus = 0
    /\ rdThrew = {}
    /\ adminToken = "tok"
    /\ adRoute = "none"
    /\ adTok = ""
    /\ adStatus = 0
    /\ adCount = 0
    /\ markerAge = [e \in EventIds |-> 0]
    /\ alGross = 0
    /\ alFlags = {}
    /\ alHitAt = <<>>
    /\ alVersion = <<>>
    /\ alPc = [p \in Procs |-> "idle"]
    /\ alLoc = [p \in Procs |-> NoLocals]
    /\ alPosts = [a \in Alerts |-> 0]
    /\ alToGo = {}
    /\ alClock = 0
    /\ alDelivered = 0

NextRound ==
    \/ PageGross
    \/ PageLatest
    \/ LatestPayment

SpecRound == InitRound /\ [][NextRound]_vars

\* The sender delivers the first charge with any of the digests, one
\* request at a time.
NextDigest ==
    \/ \E p \in Procs, r \in DigestRequests :
          NoneInFlight /\ Receive(p, r, MaxSeqDeliveries)
    \/ \E p \in Procs : MarkGet(p)
    \/ \E p \in Procs : MarkPut(p)
    \/ \E p \in Procs : AddGet(p)
    \/ \E p \in Procs : AddPut(p)
    \/ \E p \in Procs : LatestPut(p)

SpecDigest == Init /\ [][NextDigest]_vars

\* The sender delivers the first charge with any header of up to MaxPairs
\* pairs, one request at a time.
NextHeader ==
    \/ \E p \in Procs, r \in HeaderRequests :
          NoneInFlight /\ Receive(p, r, MaxSeqDeliveries)
    \/ \E p \in Procs : MarkGet(p)
    \/ \E p \in Procs : MarkPut(p)
    \/ \E p \in Procs : AddGet(p)
    \/ \E p \in Procs : AddPut(p)
    \/ \E p \in Procs : LatestPut(p)

SpecHeader == Init /\ [][NextHeader]_vars

\* All routes of fetch: webhook deliveries one at a time, the reads, the
\* diagnostic route and the admin routes with any token, on a worker whose
\* ADMIN_TOKEN is set or not.
AdminDeliveries == {Delivery(e) : e \in {"evt_1", "evt_5"}}

InitAdmin ==
    /\ kvTotal = <<>>
    /\ kvLatest = <<>>
    /\ kvMarkers = {}
    /\ pc = [p \in Procs |-> "idle"]
    /\ req = [p \in Procs |-> AnyRequest]
    /\ cur = [p \in Procs |-> 0]
    /\ status = [p \in Procs |-> 0]
    /\ isNew = [p \in Procs |-> FALSE]
    /\ markGetFailed = [p \in Procs |-> FALSE]
    /\ markPutFailed = [p \in Procs |-> FALSE]
    /\ ledgerFailed = [p \in Procs |-> FALSE]
    /\ applied = [e \in EventIds |-> 0]
    /\ lastPutBy = 0
    /\ responses = [e \in EventIds |-> <<>>]
    /\ taint = {}
    /\ delivered = 0
    /\ rdPc = "idle"
    /\ rdRoute = "none"
    /\ rdGross = 0
    /\ rdLatest = <<>>
    /\ rdStatus = 0
    /\ rdThrew = {}
    /\ adminToken \in AdminTokens
    /\ adRoute = "none"
    /\ adTok = ""
    /\ adStatus = 0
    /\ adCount = 0
    /\ markerAge = [e \in EventIds |-> 0]
    /\ alGross = 0
    /\ alFlags = {}
    /\ alHitAt = <<>>
    /\ alVersion = <<>>
    /\ alPc = [p \in Procs |-> "idle"]
    /\ alLoc = [p \in Procs |-> NoLocals]
    /\ alPosts = [a \in Alerts |-> 0]
    /\ alToGo = {}
    /\ alClock = 0
    /\ alDelivered = 0

NextAdmin ==
    \/ \E p \in Procs, r \in AdminDeliveries :
          NoneInFlight /\ Receive(p, r, MaxSeqDeliveries)
    \/ \E p \in Procs : MarkGet(p)
    \/ \E p \in Procs : MarkPut(p)
    \/ \E p \in Procs : AddGet(p)
    \/ \E p \in Procs : AddPut(p)
    \/ \E p \in Procs : LatestPut(p)
    \/ LatestPayment
    \/ Diag
    \/ \E token \in TokenParams, name \in NameParams, amount \in AmountParams :
          AdminSetLatest(token, name, amount)
    \/ \E token \in TokenParams : AdminResetLatest(token)

SpecAdmin == InitAdmin /\ [][NextAdmin]_vars

\* Charges in the target currency are delivered again, one request at a
\* time, while time passes between the requests and the store drops the
\* markers whose time to live has passed.
NextRetention ==
    \/ \E p \in Procs, r \in RedeliveredRequests :
          NoneInFlight /\ Receive(p, r, MaxRedeliveries)
    \/ \E p \in Procs : MarkGet(p)
    \/ \E p \in Procs : MarkPut(p)
    \/ \E p \in Procs : AddGet(p)
    \/ \E p \in Procs : AddPut(p)
    \/ \E p \in Procs : LatestPut(p)
    \/ \E d \in TickSeconds : Tick(d)
    \/ \E e \in EventIds : ExpireAfterTtl(e)

SpecRetention == Init /\ [][NextRetention]_vars

\* The alerting worker: /init while it is idle, and webhook requests that
\* overlap.
NextAlert ==
    \/ \E p \in Procs, r \in AlertRequests : AlReceive(p, r, MaxAlertDeliveries)
    \/ \E p \in Procs : AlGetGross(p)
    \/ \E p \in Procs : AlPutGross(p)
    \/ \E p \in Procs : AlGetHit(p)
    \/ \E p \in Procs : AlPutHit(p)
    \/ \E p \in Procs : AlPutHitAt(p)
    \/ \E p \in Procs : AlPutVersion(p)
    \/ \E p \in Procs : AlPostHit(p)
    \/ \E p \in Procs : AlGetFlag(p)
    \/ \E p \in Procs : AlPutFlag(p)
    \/ \E p \in Procs : AlPostFlag(p)
    \/ \E value \in InitValues : AlInit(value)

SpecAlert == Init /\ [][NextAlert]_vars

\* The alerting worker with one webhook request at a time.
AlNoneInFlight == \A q \in Procs : alPc[q] \notin AlInFlight

NextAlertSeq ==
    \/ \E p \in Procs, r \in AlertRequests :
          AlNoneInFlight /\ AlReceive(p, r, MaxAlertDeliveries)
    \/ \E p \in Procs : AlGetGross(p)
    \/ \E p \in Procs : AlPutGross(p)
    \/ \E p \in Procs : AlGetHit(p)
    \/ \E p \in Procs : AlPutHit(p)
    \/ \E p \in Procs : AlPutHitAt(p)
    \/ \E p \in Procs : AlPutVersion(p)
    \/ \E p \in Procs : AlPostHit(p)
    \/ \E p \in Procs : AlGetFlag(p)
    \/ \E p \in Procs : AlPutFlag(p)
    \/ \E p \in Procs : AlPostFlag(p)
    \/ \E value \in InitValues : AlInit(value)

SpecAlertSeq == Init /\ [][NextAlertSeq]_vars

SpecLive ==
    /\ Init /\ [][NextLive]_vars
    /\ \A p \in Procs :
          /\ WF_vars(MarkGet(p)) /\ WF_vars(MarkPut(p))
          /\ WF_vars(AddGet(p)) /\ WF_vars(AddPut(p)) /\ WF_vars(LatestPut(p))

----------------------------------------------------------------------------
(* Vocabulary of the properties *)

\* The number stored under total_cents (an absent key counts as 0)
Total == StoredTotal

BodyOf(e) == CHOOSE b \in BodyIds : Bodies[b].id = e
EventOf(e) == Bodies[BodyOf(e)]

IsAudCharge(ev) ==
    /\ ev.type = ChargeSucceeded
    /\ ev.hasData
    /\ ev.currency \in {<<"a", "u", "d">>, <<"A", "U", "D">>}

\* An amount of minor units as Stripe sends it: an integer 0 <= n < 2^31
IsMinorUnits(x) == x.hi = 0 /\ x.lo >= 0

AudChargeIds == {e \in EventIds : IsAudCharge(EventOf(e)) /\ IsMinorUnits(EventOf(e).amount)}

RECURSIVE SumOver(_, _)
SumOver(S, f) ==
    IF S = {} THEN 0
    ELSE LET x == CHOOSE y \in S : TRUE IN f[x] + SumOver(S \ {x}, f)

StoreFailures == {"markGetFail", "markPutFail", "ledgerFail"}

Responded(p, code) == pc[p] = "done" /\ status[p] = code

\* The request in slot p carries an AUD charge, was treated as new and was
\* answered 200: addCents has read the total and written it back.
AppliedOk(p) ==
    /\ Responded(p, 200)
    /\ isNew[p]
    /\ Event(p).id \in AudChargeIds

\* The amount, in cents, of the charge the request in slot p carries
Amount(p) == Event(p).amount.lo

----------------------------------------------------------------------------
(* Properties *)

\* C1: Idempotency of sequential redelivery.  When no KV operation has
\* thrown, no request has died and no marker has expired, an AUD
\* charge.succeeded event that has been delivered twice or more, one call
\* after the other, has had its amount added by exactly one addCents put,
\* every one of its calls was answered 200, and the stored total is the sum
\* of the amounts of the events applied, each counted once.
C1_SequentialIdempotency ==
    (taint = {}) =>
        /\ \A e \in AudChargeIds :
              Len(responses[e]) >= 2 =>
                 /\ applied[e] = 1
                 /\ \A i \in 1..Len(responses[e]) : responses[e][i] = 200
        /\ (\A e \in EventIds : applied[e] > 0 => e \in AudChargeIds) =>
              Total = SumOver({e \in EventIds : applied[e] > 0},
                              [e \in EventIds |-> applied[e] * EventOf(e).amount.lo])

C1_Witness ==
    /\ taint = {}
    /\ responses["evt_1"] = <<200, 200>>
    /\ applied["evt_1"] = 1
    /\ Total = 5000

\* C2: At-most-once application under concurrency.  When no KV operation
\* has thrown and no marker has expired, markProcessed has returned true
\* for at most one of the requests that carry the same event id, and the
\* amount of an event id has been added at most once.
C2_AtMostOnceConcurrent ==
    (taint \cap (StoreFailures \cup {"expire"}) = {}) =>
        /\ \A p, q \in Procs :
              (p # q /\ pc[p] # "idle" /\ pc[q] # "idle"
                 /\ Accepted(req[p]) /\ Accepted(req[q])
                 /\ Event(p).id = Event(q).id)
              => ~(isNew[p] /\ isNew[q])
        /\ \A e \in EventIds : applied[e] <= 1

\* C3: Monotonic total.  No step lowers the number stored under total_cents.
C3_MonotonicTotal == [][Total' >= Total]_vars

\* C4: Lost update in addCents.  When two requests with distinct event ids
\* have both been answered 200 after adding their amounts, both read the
\* same total T in addCents, and one of them wrote the total last, then the
\* stored total is T plus the amount of one of them: the other increment is
\* lost, so with both amounts positive the total is not T + d1 + d2.
C4_LostUpdate ==
    \A p, q \in Procs :
        (p # q /\ AppliedOk(p) /\ AppliedOk(q)
           /\ Event(p).id # Event(q).id
           /\ cur[p] = cur[q]
           /\ lastPutBy \in {p, q})
        => /\ Total \in {cur[p] + Amount(p), cur[q] + Amount(q)}
           /\ (Amount(p) > 0 /\ Amount(q) > 0) => Total # cur[p] + Amount(p) + Amount(q)

C4_Witness ==
    \E p, q \in Procs :
        /\ p # q /\ AppliedOk(p) /\ AppliedOk(q)
        /\ Event(p).id = "evt_1" /\ Event(q).id = "evt_2"
        /\ cur[p] = 0 /\ cur[q] = 0
        /\ taint \cap StoreFailures = {}
        /\ Total = 700

\* C5: Write ordering.  The dedup marker of an AUD charge.succeeded event
\* is present only when the amount of the event has been written to the
\* total by some addCents put.
C5_LedgerBeforeMarker ==
    \A e \in AudChargeIds : e \in kvMarkers => applied[e] > 0

\* C6: No lost payment after a crash.  When a delivery of an AUD
\* charge.succeeded event has died and a later delivery of the same event
\* has been answered 200 (no KV operation throwing, no marker expiring),
\* the amount of the event has been added to the total at least once.
C6_CrashKeepsEventEligible ==
    (taint \cap (StoreFailures \cup {"expire"}) = {}) =>
        \A e \in AudChargeIds :
            (\E i, j \in 1..Len(responses[e]) :
                i < j /\ responses[e][i] = 0 /\ responses[e][j] = 200)
            => applied[e] >= 1

C8_Retryable500 ==
    \A p \in Procs : Responded(p, 500) => Event(p).id \notin kvMarkers

\* C9: Marker-write failures are not swallowed.  A request whose put of the
\* dedup marker threw is not answered with the success code 200.
C9_MarkerFailureSurfaced ==
    \A p \in Procs : (pc[p] = "done" /\ markPutFailed[p]) => status[p] # 200

\* C10: Ledger-write failures yield 500.  A request in which the get or the
\* put of addCents or the put of latest_payment threw is answered 500.
C10_LedgerFailureIs500 ==
    \A p \in Procs : (pc[p] = "done" /\ ledgerFailed[p]) => status[p] = 500

C10_Witness ==
    \E p \in Procs :
        /\ Responded(p, 500) /\ ledgerFailed[p]
        /\ Event(p).id = "evt_5"

\* C11: Fail-open deduplication.  A request whose get or put of the dedup
\* marker threw is treated as new (markProcessed returned true) and goes on
\* to classification; when it carries an AUD charge and its ledger
\* operations succeed it is answered 200 with its amount added to the total
\* it read, also when the event had been applied before (one request at a
\* time).
C11_FailOpen ==
    \A p \in Procs :
        (pc[p] \notin {"idle", "markGet", "markPut"}
           /\ (markGetFailed[p] \/ markPutFailed[p]))
        => /\ isNew[p]
           /\ (pc[p] = "done" /\ ~ledgerFailed[p] /\ Event(p).id \in AudChargeIds)
                 => /\ status[p] = 200
                    /\ lastPutBy = p
                    /\ applied[Event(p).id] >= 1
                    /\ Total = cur[p] + Amount(p)

C11_Witness ==
    \E p \in Procs :
        /\ Responded(p, 200) /\ markGetFailed[p]
        /\ Event(p).id = "evt_1"
        /\ responses["evt_1"] = <<200, 200>>
        /\ applied["evt_1"] = 2
        /\ Total = 10000

\* C12: A duplicate is a successful no-op.  The step in which the get of
\* markProcessed returns and finds the marker of the event id present ends
\* the request with status 200 (markProcessed returned false) and leaves
\* the total, the latest_payment record and the markers unchanged.
C12_DuplicateNoOp ==
    [][\A p \in Procs :
          (pc[p] = "markGet" /\ pc'[p] \notin {"markGet", "idle"}
             /\ Event(p).id \in kvMarkers /\ ~markGetFailed'[p])
          => /\ pc'[p] = "done" /\ status'[p] = 200 /\ ~isNew'[p]
             /\ UNCHANGED <<kvTotal, kvLatest, kvMarkers>>]_vars

C12_Witness ==
    \E p \in Procs :
        /\ Responded(p, 200) /\ ~isNew[p] /\ Accepted(req[p])
        /\ Event(p).id = "evt_1"
        /\ "evt_1" \in kvMarkers
        /\ kvTotal = String(5000)
        /\ kvLatest = <<LatestRecord(Bodies[1])>>

\* C13: Non-double-counting.  Every step that changes the value stored
\* under total_cents is the addCents put of a request that carries a
\* charge.succeeded event: payment_intent.succeeded and
\* checkout.session.completed events leave total_cents as it was, and no
\* addCents put is ever recorded for them.
C13_OnlyChargesCount ==
    [][/\ kvTotal' # kvTotal =>
             \E p \in Procs :
                 /\ pc[p] = "addPut" /\ pc'[p] = "latestPut"
                 /\ Event(p).type = ChargeSucceeded
       /\ \A e \in EventIds :
             EventOf(e).type \in {PaymentIntentSucceeded, CheckoutCompleted}
                 => applied'[e] = 0]_vars

C13_Witness ==
    /\ responses["evt_5"] = <<200>>
    /\ responses["evt_8"] = <<200>>
    /\ kvTotal = <<>>
    /\ kvLatest = <<LatestRecord(EventOf("evt_8"))>>
    /\ {"evt_5", "evt_8"} \subseteq kvMarkers

\* A new charge.succeeded event with a data object and an amount of minor
\* units, answered 200
ChargeDone(p) ==
    /\ Responded(p, 200) /\ isNew[p]
    /\ Event(p).type = ChargeSucceeded /\ Event(p).hasData
    /\ IsMinorUnits(Event(p).amount)

\* C14: Currency gate.  A new charge.succeeded event answered 200 has had
\* its amount added to the total it read if and only if its currency is
\* 'aud' in any letter case; with another or no currency no addCents put is
\* made for it and no step of its request changes total_cents.  In both
\* cases latest_payment holds the record of the event, with its payer
\* (one request at a time).
C14_CurrencyGate ==
    [][/\ \A p \in Procs :
             ChargeDone(p)' =>
                /\ kvLatest' = <<LatestRecord(Event(p)')>>
                /\ IF IsAudCharge(Event(p)')
                   THEN /\ lastPutBy' = p
                        /\ applied'[Event(p)'.id] >= 1
                        /\ Total' = cur'[p] + Amount(p)'
                   ELSE /\ lastPutBy' # p
                        /\ applied'[Event(p)'.id] = 0
       /\ \A p \in Procs :
             (pc[p] \in InFlight /\ pc'[p] # pc[p]
                /\ Event(p).type = ChargeSucceeded /\ ~IsAudCharge(Event(p)))
             => kvTotal' = kvTotal]_vars

C14_Witness ==
    \E p \in Procs :
        /\ ChargeDone(p) /\ Event(p).id = "evt_3"
        /\ responses["evt_2"] = <<200>>
        /\ applied["evt_2"] = 1 /\ applied["evt_3"] = 0
        /\ Total = 700
        /\ kvLatest[1].name = "U. Payer"

\* What makes a request one to reject, read off the request itself
MalformedHeader(r) == r.hdr.t = 0 \/ r.hdr.v1 = <<>>
StaleTimestamp(r) == r.hdr.t < Now - 1800 \/ r.hdr.t > Now + 1800
SignatureMismatch(r) == r.hdr.v1 # <<Secret, r.hdr.t, r.body>>
InvalidJson(r) == ~Bodies[r.body].json
MissingEventId(r) == Bodies[r.body].id = NoId

Rejectable(r) ==
    \/ MalformedHeader(r) \/ StaleTimestamp(r) \/ SignatureMismatch(r)
    \/ InvalidJson(r) \/ MissingEventId(r)

\* C15: Rejections are 400 and mutate nothing.  The step in which a
\* request with a malformed signature header, a stale timestamp, a
\* signature mismatch, a body that is not JSON or no event id is received
\* ends the request with status 400, before the dedup check, and leaves the
\* total, latest_payment and the markers unchanged.
C15_RejectionsMutateNothing ==
    [][\A p \in Procs :
          (delivered' # delivered /\ pc[p] \notin InFlight /\ pc'[p] # "idle"
             /\ Rejectable(req'[p]))
          => /\ pc'[p] = "done" /\ status'[p] = 400
             /\ ~isNew'[p]
             /\ UNCHANGED <<kvTotal, kvLatest, kvMarkers>>]_vars

C15_Witness ==
    \E p \in Procs :
        /\ Responded(p, 400)
        /\ MissingEventId(req[p]) /\ ~InvalidJson(req[p])
        /\ ~SignatureMismatch(req[p]) /\ ~StaleTimestamp(req[p])
        /\ delivered = 2
        /\ kvTotal = <<>> /\ kvLatest = <<>> /\ kvMarkers = {}

\* C16: Authentication invariant.  Every step that changes total_cents or
\* latest_payment or adds a marker is a step of a request whose v1 is the
\* HMAC of "t.rawBody" under the shared secret and whose timestamp is
\* within 1800 seconds of the clock.  A request whose digest differs from
\* that HMAC in any position is answered 400 when it is received and never
\* takes a step after that.
C16_Authenticated ==
    [][/\ (kvTotal' # kvTotal \/ kvLatest' # kvLatest
           \/ ~(kvMarkers' \subseteq kvMarkers)) =>
             \E p \in Procs :
                 /\ pc[p] \in InFlight /\ pc'[p] # pc[p]
                 /\ req[p].hdr.v1 = <<Secret, req[p].hdr.t, req[p].body>>
                 /\ req[p].hdr.t >= Now - 1800 /\ req[p].hdr.t <= Now + 1800
       /\ \A p \in Procs :
             (pc'[p] # "idle" /\ SignatureMismatch(req'[p]))
             => pc'[p] = "done" /\ status'[p] = 400]_vars

C16_Witness ==
    \E p \in Procs :
        /\ Responded(p, 400)
        /\ req[p] = [body |-> 2, hdr |-> Signed(Secret, Now, 1)]
        /\ responses["evt_1"] = <<200>>
        /\ Total = 5000
        /\ kvMarkers = {"evt_1"}
        /\ kvLatest = <<LatestRecord(EventOf("evt_1"))>>

\* C17: Timestamp window.  A correctly signed request for an event with
\* an id is rejected with 400 if and only if its header timestamp t is more
\* than 1800 seconds before or after the clock: t 1800 or 1799 seconds
\* away is accepted, t 1801 or 3601 seconds away is rejected.
C17_TimestampWindow ==
    \A p \in Procs :
        (pc[p] # "idle" /\ ~MalformedHeader(req[p]) /\ ~SignatureMismatch(req[p])
           /\ ~InvalidJson(req[p]) /\ ~MissingEventId(req[p]))
        => LET away == Abs(Now - req[p].hdr.t)
               rejected == Responded(p, 400) /\ ~isNew[p]
           IN  /\ rejected <=> away > 1800
               /\ away \in {1799, 1800} => ~rejected
               /\ away \in {1801, 3601} => rejected

C17_Witness ==
    \E p \in Procs :
        /\ req[p] = [body |-> 1, hdr |-> Signed(Secret, Now - 1800, 1)]
        /\ Responded(p, 200) /\ isNew[p]
        /\ Total = 5000

\* C18: The read path never fails on store unavailability.  A request for
\* the public page or for /latest-payment ends with status 200 whether its
\* KV reads returned or threw: when the get of the total threw, the page
\* shows the fallback total, and when the get of latest_payment threw, the
\* latest payment is null.
C18_ReadPathNeverFails ==
    /\ rdPc = "done" => rdStatus = 200
    /\ (rdPc # "idle" /\ "total" \in rdThrew) => rdGross = ReadFallback
    /\ (rdPc = "done" /\ "latest" \in rdThrew) => rdLatest = <<>>

C18_Witness ==
    /\ rdPc = "done" /\ rdRoute = "page"
    /\ rdThrew = {"total", "latest"}
    /\ rdStatus = 200
    /\ rdGross = 988100 /\ rdLatest = <<>>
    /\ Total = 5000 /\ kvLatest # <<>>

\* C19: An absent ledger reads as zero.  When total_cents has never been
\* written and its get returns, readGrossAud reports a total of 0; and the
\* first addCents put of an AUD charge of amount d, made while the key is
\* absent, leaves the stored total equal to d (one webhook request at a
\* time).
C19_AbsentReadsAsZero ==
    [][/\ (rdPc' = "pageLatest" /\ rdPc # "pageLatest"
             /\ kvTotal = <<>> /\ "total" \notin rdThrew')
          => rdGross' = 0
       /\ \A p \in Procs :
             (pc[p] = "addPut" /\ pc'[p] = "latestPut" /\ kvTotal = <<>>
                /\ Event(p).id \in AudChargeIds)
             => Total' = Amount(p)]_vars

C19_Witness ==
    /\ rdPc = "pageLatest" /\ rdThrew = {} /\ rdGross = 0
    /\ \A e \in EventIds : applied[e] = (IF e = "evt_2" THEN 1 ELSE 0)
    /\ kvTotal = String(700)

\* C20: Unrecognised event types are ignored, not errors.  The step in
\* which markProcessed returns true for a verified event whose type is
\* none of charge.succeeded, payment_intent.succeeded and
\* checkout.session.completed ends the request with status 200 and leaves
\* total_cents and latest_payment unchanged; no addCents put is ever
\* recorded for such an event.
C20_UnrecognisedIgnored ==
    [][\A p \in Procs :
          LET other == Event(p).type \notin
                          {"charge.succeeded", "payment_intent.succeeded",
                           "checkout.session.completed"}
          IN  /\ (pc[p] \in {"markGet", "markPut"} /\ isNew'[p] /\ other
                    /\ pc'[p] \notin {"markGet", "markPut", "idle"})
                 => /\ pc'[p] = "done" /\ status'[p] = 200
                    /\ UNCHANGED <<kvTotal, kvLatest>>
              /\ (pc[p] # "idle" /\ Accepted(req[p]) /\ other)
                 => applied'[Event(p).id] = 0]_vars

C20_Witness ==
    \E p \in Procs :
        /\ Responded(p, 200) /\ isNew[p]
        /\ Event(p).id = "evt_6"
        /\ kvMarkers = {"evt_6"}
        /\ kvTotal = <<>> /\ kvLatest = <<>>

\* The stored total is the total the request in slot p read plus the
\* amount its event carries.  An amount of 2^31 + lo is compared without
\* forming the sum.
ExactlyAdded(p) ==
    IF Event(p).amount.hi = 0
    THEN Total = cur[p] + Event(p).amount.lo
    ELSE ((Total - cur[p]) - Int32Max) - 1 = Event(p).amount.lo

\* C21: AddAmount arithmetic.  When a new AUD charge.succeeded event with
\* an amount delta >= 0, deltas of 2^31 and above included, has been
\* answered 200 with no other writer (one request at a time), the stored
\* total is the total addCents read plus delta.
C21_AddAmountExact ==
    \A p \in Procs :
        (Responded(p, 200) /\ isNew[p] /\ IsAudCharge(Event(p))
           /\ (Event(p).amount.hi = 1 \/ Event(p).amount.lo >= 0))
        => ExactlyAdded(p)

\* The stages of a request, numbered in the order of the handler: the
\* dedup check (markGet, markPut), the application after classification
\* (addGet, addPut, latestPut), the response (done).
Stage(at) ==
    CASE at = "idle" -> 0
      [] at = "markGet" -> 1
      [] at = "markPut" -> 2
      [] at = "addGet" -> 3
      [] at = "addPut" -> 4
      [] at = "latestPut" -> 5
      [] at = "done" -> 6

\* C22: Per-request stage order.  Every step of a request moves it to a
\* later stage (received and verified, deduplicated, classified and
\* applied, responded).  The step in which a request is received and
\* verified changes no key, and its outcome is settled by the request
\* alone: a request to reject is answered 400 there, any other goes on to
\* the dedup check.  Every change of a key is made by a request that has
\* passed verification, and the ledger operations are made only by a
\* request the dedup check has found new.
C22_StageOrder ==
    [][/\ \A p \in Procs :
             /\ (pc[p] \in InFlight /\ pc'[p] \notin {pc[p], "idle"})
                   => Stage(pc'[p]) > Stage(pc[p])
             /\ (delivered' # delivered /\ pc[p] \notin InFlight /\ pc'[p] # "idle")
                   => /\ pc'[p] \in {"markGet", "done"}
                      /\ pc'[p] = "markGet" => ~Rejectable(req'[p])
                      /\ Rejectable(req'[p]) => status'[p] = 400
             /\ pc'[p] \in {"addGet", "addPut", "latestPut"} => isNew'[p]
       /\ delivered' # delivered => UNCHANGED <<kvTotal, kvLatest, kvMarkers>>
       /\ (kvTotal' # kvTotal \/ kvLatest' # kvLatest
           \/ ~(kvMarkers' \subseteq kvMarkers)) =>
             \E p \in Procs :
                 pc[p] \in InFlight /\ pc'[p] # pc[p] /\ ~Rejectable(req[p])]_vars

C22_Witness ==
    \E p \in Procs :
        /\ Responded(p, 200) /\ isNew[p] /\ lastPutBy = p
        /\ Event(p).id = "evt_2"
        /\ kvMarkers = {"evt_2"}
        /\ kvTotal = String(700)
        /\ kvLatest = <<LatestRecord(EventOf("evt_2"))>>
        /\ delivered = 1 /\ taint = {}

\* C23: Termination without internal retries.  When every store operation
\* returns or throws, a request in flight reaches its response, and the
\* status of the response is 200 or 500 (400 for a request rejected when
\* it is received).  No response is sent before, and the response of a
\* request does not change afterwards.  Each step of a request in flight
\* is one store operation and moves the request to a later position, so
\* the marker get and put, the total get and put and the latest_payment
\* put happen at most once per request.
C23_TerminatesNoRetry ==
    /\ \A p \in Procs :
          (pc[p] \in InFlight) ~> (pc[p] = "done" /\ status[p] \in {200, 500})
    /\ [][\A p \in Procs :
             /\ pc[p] \in InFlight =>
                   /\ status[p] = 0
                   /\ pc'[p] # pc[p] => Stage(pc'[p]) > Stage(pc[p])
                   /\ pc'[p] = pc[p] =>
                         UNCHANGED <<kvTotal, kvLatest, kvMarkers, applied, status>>
             /\ (pc[p] \in InFlight /\ pc'[p] = "done") => status'[p] \in {200, 500}
             /\ (pc[p] \notin InFlight /\ pc'[p] = "done" /\ status'[p] # status[p])
                   => (delivered' # delivered /\ status'[p] = 400)
             /\ pc'[p] = "done" => status'[p] \in {200, 400, 500}]_vars

C23_Witness ==
    \E p \in Procs :
        /\ pc[p] = "done" /\ status[p] = 200 /\ ~isNew[p]
        /\ delivered = 2
        /\ responses["evt_1"] = <<500, 200>>
        /\ applied["evt_1"] = 1
        /\ kvLatest = <<>>

\* C24: 500 only on store failure.  A request answered 500 has had one of
\* its store operations throw: the get or the put of its marker, or an
\* operation of the ledger (total get, total put, latest_payment put).
C24_Only500OnStoreFailure ==
    \A p \in Procs :
        Responded(p, 500) =>
            (markGetFailed[p] \/ markPutFailed[p] \/ ledgerFailed[p])

\* C25: Marker for every accepted event.  As long as no store operation
\* has thrown, no request has died and no marker has expired, the event
\* of every request that passed verification, carries an id and has been
\* answered has its marker in the store, whatever its kind and whatever
\* the status of the response.
C25_MarkerForAccepted ==
    (taint \cap (StoreFailures \cup {"crash", "expire"}) = {}) =>
        \A p \in Procs :
            (pc[p] = "done" /\ status[p] # 0 /\ ~Rejectable(req[p]))
                => Event(p).id \in kvMarkers

C25_Witness ==
    \E p \in Procs :
        /\ Responded(p, 500) /\ Event(p).id = "evt_7"
        /\ responses["evt_6"] = <<200>>
        /\ kvMarkers = {"evt_6", "evt_7"}
        /\ taint = {}

\* The three event types that write latest_payment
Recognised == {ChargeSucceeded, PaymentIntentSucceeded, CheckoutCompleted}

\* C26: Latest payment is last-write-wins.  The step in which a new event
\* of a recognised type is answered 200 leaves latest_payment holding the
\* name and the timestamp of that event, whatever was stored before (also
\* a record with a later timestamp), and no other step changes
\* latest_payment; so the slot holds the record of the event whose write
\* was last.
C26_LastWriteWins ==
    [][/\ \A p \in Procs :
             (pc[p] \in InFlight /\ Responded(p, 200)' /\ isNew[p]
                /\ Event(p).type \in Recognised)
             => /\ kvLatest' # <<>>
                /\ kvLatest'[1].name =
                      (IF Event(p).name = "" THEN "Unknown" ELSE Event(p).name)
                /\ kvLatest'[1].createdMs = Event(p).created * 1000
       /\ kvLatest' # kvLatest =>
             \E p \in Procs :
                 /\ pc[p] \in InFlight /\ Responded(p, 200)' /\ isNew[p]
                 /\ Event(p).type \in Recognised]_vars

C26_Witness ==
    \E p \in Procs :
        /\ Responded(p, 200) /\ isNew[p] /\ Event(p).id = "evt_2"
        /\ responses["evt_1"] = <<200>> /\ applied["evt_1"] = 1
        /\ EventOf("evt_1").created > EventOf("evt_2").created
        /\ kvLatest # <<>>
        /\ kvLatest[1].createdMs = EventOf("evt_2").created * 1000
        /\ kvLatest[1].name = "Unknown"

\* The request in slot p completes the write of latest_payment in this step.
WritesLatest(p) ==
    /\ pc[p] = "latestPut" /\ Responded(p, 200)'
    /\ Event(p).type \in Recognised

\* C27 as stated: the record written for a new recognised event holds the
\* amount the event carries, in minor units, with the payer name and the
\* timestamp of the event.
C27_RecordInMinorUnits ==
    [][\A p \in Procs :
          WritesLatest(p) =>
              /\ kvLatest'[1].amount.num = Event(p).amount
              /\ kvLatest'[1].amount.den = 1
              /\ kvLatest'[1].name =
                    (IF Event(p).name = "" THEN "Unknown" ELSE Event(p).name)
              /\ kvLatest'[1].createdMs = Event(p).created * 1000]_vars

\* C27, amended: the record written for a new recognised event holds the
\* amount the event carries divided by 100 (major units, a fraction when
\* the amount is not a multiple of 100), with the payer name ("Unknown"
\* when the event carries none) and the timestamp of the event.
C27_RecordInMajorUnits ==
    [][\A p \in Procs :
          WritesLatest(p) =>
              /\ kvLatest'[1].amount.num = Event(p).amount
              /\ kvLatest'[1].amount.den = 100
              /\ kvLatest'[1].name =
                    (IF Event(p).name = "" THEN "Unknown" ELSE Event(p).name)
              /\ kvLatest'[1].createdMs = Event(p).created * 1000]_vars

C27_Witness ==
    \E p \in Procs :
        /\ Responded(p, 200) /\ isNew[p] /\ Event(p).id = "evt_9"
        /\ kvLatest = <<[name |-> "M. Payer",
                         amount |-> [num |-> Num(250), den |-> 100],
                         createdMs |-> Event(p).created * 1000]>>
        /\ delivered = 1

\* C28: Display rounding.  When the public page reads a stored total of c
\* minor units (an absent total counts as 0) and the read does not throw,
\* the value it shows is floor((c + 50) / 100): the nearest whole major
\* unit, halves rounded up.  No step of a reader changes a stored value.
C28_DisplayRounding ==
    [][/\ (rdRoute' = "page" /\ rdPc' = "pageLatest" /\ rdPc # "pageLatest"
              /\ "total" \notin rdThrew')
            => rdGross' = (Total + 50) \div 100
       /\ (rdPc' # rdPc \/ rdGross' # rdGross \/ rdLatest' # rdLatest)
            => UNCHANGED <<kvTotal, kvLatest, kvMarkers>>]_vars

C28_Witness ==
    /\ Total = 150 /\ kvTotal = String(150)
    /\ rdPc = "done" /\ rdRoute = "page" /\ rdStatus = 200
    /\ rdThrew = {}
    /\ rdGross = 2

\* C29: Digest comparison.  For the HMAC a the worker computes and the
\* digest b of a received request, timingSafeEqualHex(a, b) is true iff a
\* and b have the same length and the same character at every position;
\* when the lengths are equal the loop reads every position, wherever the
\* first difference is; when they differ the result is false.  The request
\* is answered 400 when it is received iff the comparison is false.
C29_DigestComparison ==
    \A p \in Procs :
        pc[p] # "idle" =>
            LET a == HmacSHA256(Secret, req[p].hdr.t, req[p].body)
                b == req[p].hdr.v1
            IN  /\ timingSafeEqualHex(a, b)
                      <=> (Len(a) = Len(b) /\ \A i \in 1..Len(a) : a[i] = b[i])
                /\ Len(a) = Len(b) => Visited(a, b) = Len(a)
                /\ Len(a) # Len(b) => ~timingSafeEqualHex(a, b)
                /\ Responded(p, 400) <=> ~timingSafeEqualHex(a, b)

C29_Witness ==
    \E p \in Procs :
        /\ Responded(p, 400)
        /\ req[p].hdr.v1 = <<"whsec_other", Now, 1>>
        /\ Visited(HmacSHA256(Secret, req[p].hdr.t, req[p].body), req[p].hdr.v1) = 3
        /\ responses["evt_1"] = <<200>>

HasKey(raw, key) == \E i \in 1..Len(raw) : raw[i].k = key

\* The same pairs, each as many times, in any order
SamePairs(raw, other) ==
    /\ Len(raw) = Len(other)
    /\ \A x \in HeaderPairs :
          Cardinality({i \in 1..Len(raw) : raw[i].k = x.k /\ raw[i].v = x.v})
            = Cardinality({i \in 1..Len(other) : other[i].k = x.k /\ other[i].v = x.v})

IsRequiredPair(x) == x.k \in {"t", "v1"}

\* The header without its pairs of other keys
RequiredPairs(raw) == SelectSeq(raw, IsRequiredPair)

\* C30: Signature header parsing.  A received request whose header lacks a
\* t pair or a v1 pair is answered 400, and a header with both is taken
\* to verification (its parsed t and v1 are present).  The outcome for a
\* received request is the outcome for every header made of the same pairs
\* in another order, and for every header that differs from it only in
\* pairs of other keys.
C30_HeaderParsing ==
    \A p \in Procs :
        pc[p] # "idle" =>
            LET raw == req[p].raw
            IN  /\ (HasKey(raw, "t") /\ HasKey(raw, "v1"))
                      <=> ~MalformedHeader(req[p])
                /\ ~(HasKey(raw, "t") /\ HasKey(raw, "v1")) => Responded(p, 400)
                /\ \A other \in RawHeaders :
                      (SamePairs(raw, other)
                         \/ RequiredPairs(raw) = RequiredPairs(other))
                      => (Accepted([body |-> 1, hdr |-> ParseHeader(other)])
                            <=> ~Responded(p, 400))

\* The request in slot p is the event applier at work: it passed the
\* verification and the dedup check found its event new.
Applier(p) == pc[p] \in InFlight /\ ~Rejectable(req[p]) /\ isNew[p]

\* This step serves a request to /admin/set-latest or /admin/reset-latest
AdminStep == adCount' # adCount /\ adRoute' \in {"set", "reset"}

\* C31 as stated: total_cents and latest_payment are changed only by a
\* step of the event applier, and total_cents, once present, is never
\* removed.
C31_OnlyApplierWrites ==
    [][/\ kvTotal' # kvTotal =>
             \E p \in Procs : Applier(p) /\ pc[p] = "addPut" /\ pc'[p] = "latestPut"
       /\ kvLatest' # kvLatest =>
             \E p \in Procs : Applier(p) /\ pc[p] = "latestPut" /\ pc'[p] = "done"
       /\ kvTotal # <<>> => kvTotal' # <<>>]_vars

\* C31, amended: total_cents is changed only by a step of the event
\* applier and, once present, is never removed by any route.
\* latest_payment is changed only by a step of the event applier or by an
\* authorised request to /admin/set-latest (which writes it) or to
\* /admin/reset-latest (which deletes it).
C31_LedgerWriters ==
    [][/\ kvTotal' # kvTotal =>
             \E p \in Procs : Applier(p) /\ pc[p] = "addPut" /\ pc'[p] = "latestPut"
       /\ kvLatest' # kvLatest =>
             \/ \E p \in Procs : Applier(p) /\ pc[p] = "latestPut" /\ pc'[p] = "done"
             \/ /\ AdminStep /\ adStatus' = 200
                /\ isAuthorised(adTok', adminToken)
                /\ adRoute' = "reset" => kvLatest' = <<>>
                /\ adRoute' = "set" => kvLatest' # <<>>
       /\ kvTotal # <<>> => kvTotal' # <<>>]_vars

C31_Witness ==
    /\ adRoute = "reset" /\ adStatus = 200 /\ adTok = "tok" /\ adminToken = "tok"
    /\ kvLatest = <<>>
    /\ Total = 5000 /\ kvTotal # <<>>
    /\ responses["evt_1"] = <<200>>
    /\ kvMarkers = {"evt_1"}

\* The number of deliveries of event e that have passed verification so
\* far: those answered or dead, and those in flight.
Verified(e) ==
    Len(responses[e])
      + Cardinality({p \in Procs : pc[p] \in InFlight /\ Event(p).id = e})

\* C32: Total is backed by verified events.  In every state the stored
\* total is at most the sum, over the AUD charge.succeeded events, of the
\* amount of the event times the number of its verified deliveries so far
\* (a sum that is 2^31 or more as soon as a charge of 2^31 is among them),
\* and the total is 0 while no AUD charge has been delivered.
C32_TotalBacked ==
    /\ \/ \E e \in EventIds :
             /\ IsAudCharge(EventOf(e)) /\ EventOf(e).amount.hi = 1
             /\ Verified(e) > 0
       \/ Total <= SumOver(AudChargeIds,
                           [e \in AudChargeIds |-> EventOf(e).amount.lo * Verified(e)])
    /\ (\A e \in EventIds : IsAudCharge(EventOf(e)) => Verified(e) = 0)
         => Total = 0

C32_Witness ==
    /\ Verified("evt_1") = 1 /\ Verified("evt_2") = 1
    /\ applied["evt_1"] = 1 /\ applied["evt_2"] = 1
    /\ Verified("evt_4") = 0
    /\ "overlap" \in taint
    /\ Total = 5700

\* C33: Error leaves the ledger untouched.  With one request at a time, a
\* request for a charge.succeeded event that has been answered 500 has not
\* written total_cents, or has written back the value it read: the total
\* is what it was before the request.
C33_ErrorLeavesTotal ==
    \A p \in Procs :
        (Responded(p, 500) /\ Event(p).type = ChargeSucceeded)
            => (lastPutBy # p \/ Total = cur[p])

\* C34: Idempotency is bounded by marker retention.  The store drops a
\* marker only when 14 days have passed since it was put.  With one
\* request at a time and no store operation throwing: the get of a
\* delivery of an AUD charge that finds the marker (a redelivery before
\* the expiry) ends the request as a duplicate, which leaves the total
\* alone; the get of a delivery that finds no marker (the first one, or a
\* redelivery after the expiry) treats the event as new, and the request
\* then adds the amount even when it was added before; and an event whose
\* amount has been added twice has had a marker expire.
C34_RetentionBoundsIdempotency ==
    /\ [][\A e \in EventIds :
             (e \in kvMarkers /\ e \notin kvMarkers')
                => markerAge[e] >= 14 * 24 * 60 * 60]_vars
    /\ [][\A p \in Procs :
             (pc[p] = "markGet" /\ pc'[p] # "markGet" /\ ~markGetFailed'[p]
                /\ Event(p).id \in AudChargeIds)
             => IF Event(p).id \in kvMarkers
                THEN Responded(p, 200)' /\ ~isNew'[p] /\ UNCHANGED kvTotal
                ELSE pc'[p] = "markPut"]_vars
    /\ [][\A p \in Procs :
             (pc[p] = "markPut" /\ pc'[p] # "markPut" /\ Event(p).id \in AudChargeIds)
                => isNew'[p] /\ pc'[p] = "addGet"]_vars
    /\ [][\A p \in Procs :
             (pc[p] = "addPut" /\ pc'[p] = "latestPut")
                => /\ Total' = cur[p] + Amount(p)
                   /\ applied'[Event(p).id] = applied[Event(p).id] + 1]_vars
    /\ [](\A e \in AudChargeIds :
             (applied[e] >= 2 /\ taint \cap StoreFailures = {})
                => "expire" \in taint)

C34_Witness ==
    /\ responses["evt_1"] = <<200, 200, 200>>
    /\ applied["evt_1"] = 2
    /\ Total = 10000
    /\ taint = {"expire"}
    /\ "evt_1" \in kvMarkers /\ markerAge["evt_1"] = 0

\* C35: Displayed total is non-decreasing.  When the public page is read
\* after an earlier read of the public page, the value readGrossAud
\* returns is not lower than the value it returned to the earlier read.
C35_DisplayedNonDecreasing ==
    [][(rdRoute = "page" /\ rdPc = "done"
          /\ rdRoute' = "page" /\ rdPc' = "pageLatest")
        => rdGross' >= rdGross]_vars

\* C36: Admin routes require the token.  A request to /admin/set-latest
\* or /admin/reset-latest whose token is absent or empty or differs from
\* ADMIN_TOKEN, and any such request while ADMIN_TOKEN is unset or empty,
\* is answered 401 and changes no key; a request that is not answered 401
\* carries the token; and no request to these routes changes total_cents
\* or a marker.
C36_AdminNeedsToken ==
    [][AdminStep =>
          /\ (adTok' = "" \/ adTok' # adminToken \/ adminToken = "")
                => (adStatus' = 401 /\ UNCHANGED <<kvTotal, kvLatest, kvMarkers>>)
          /\ adStatus' # 401 => (adminToken # "" /\ adTok' = adminToken)
          /\ UNCHANGED <<kvTotal, kvMarkers>>]_vars

C36_Witness ==
    /\ adminToken = "" /\ adTok = ""
    /\ adRoute = "reset" /\ adStatus = 401 /\ adCount = 1
    /\ responses["evt_1"] = <<200>>
    /\ kvLatest = <<LatestRecord(EventOf("evt_1"))>>
    /\ kvTotal = String(5000) /\ kvMarkers = {"evt_1"}

\* C37: Alert flags give at-most-once alerts.  Since the last /init each
\* of the four alerts has been posted to Slack at most once, and no step
\* changes a milestone_hit_at that is present, except the /init that
\* deletes it.
C37_AlertsAtMostOnce ==
    /\ [](\A a \in Alerts : alPosts[a] <= 1)
    /\ [][alHitAt # <<>> => alHitAt' \in {alHitAt, <<>>}]_vars

\* C38: No "to go" alert after the milestone.  No "under 10k / 5k / 1k to
\* go" alert has been posted after the milestone-hit alert, and every such
\* alert posted reports a remaining amount greater than zero.
C38_NoToGoAfterMilestone ==
    \A x \in alToGo : ~x.afterHit /\ x.remaining > 0

====
